---- MODULE Spec2Model ----
(***************************************************************************)
(* Governance layer of the AI services functions (functions/ai):           *)
(*   - rate_limiter and check_cost_limits of middleware.py, over the       *)
(*     process-wide TTL caches rate_limit_cache and cost_cache;            *)
(*   - the circuit breaker of AIResultsProcessor (results_processor.py).   *)
(*                                                                         *)
(* Request handlers are modelled as per-thread step machines: one step per *)
(* access to shared state (a cache get, a cache store, a load or store of  *)
(* an attribute of the shared AIResultsProcessor).  The sequential         *)
(* specifications run one handler at a time; the concurrent ones           *)
(* interleave the steps of all threads.                                    *)
(*                                                                         *)
(* Time is the integer number of seconds of time.time(); the TTL caches'   *)
(* timer is taken to advance with the same clock.  Costs are integers in   *)
(* cost units, so the arithmetic of the ledger is exact here.  The caches' *)
(* maxsize eviction is not modelled (the models stay far below maxsize).   *)
(***************************************************************************)
EXTENDS Integers, Sequences, FiniteSets, TLC

VARIABLES
    now,                \* time.time(), in seconds
    pc,                 \* pc[t]: position of thread t in its handler
    resp,               \* resp[t]: what the handler of thread t returned
    rate_limit_cache,   \* middleware.rate_limit_cache
    rl,                 \* rl[t]: locals of rate_limiter's decorated_function
    admittedMinute,     \* history: wrapped-handler runs per <<user, service, minute window>>
    admittedHour,       \* history: wrapped-handler runs per <<user, service, hour window>>
    rateRejections,     \* history: the rejections rate_limiter returned so far
    started,            \* history: number of requests started so far
    cost_cache,         \* middleware.cost_cache
    cl,                 \* cl[t]: locals of check_cost_limits
    admittedCost,       \* history: sum of the costs admitted per <<user, service, day>>
    admittedCount,      \* history: number of calls admitted per <<user, service, day>>
    rejectedCost,       \* history: number of calls refused per <<user, service, day>>
    circuit_breaker_failures,   \* AIResultsProcessor.circuit_breaker_failures
    last_failure_time,          \* AIResultsProcessor.last_failure_time
    results_cache,      \* results_processor.results_cache
    pr,                 \* pr[t]: locals and result of the AIResultsProcessor call of t
    streak,             \* history: failures recorded since the count was last set anew
    cleanStart,         \* history: that run of failures began at count 0
    sinceSuccess,       \* history: failures recorded since the last success
    prevStreak,         \* history: sinceSuccess when the last success happened
    openedAt,           \* history: when the threshold-th consecutive failed downstream
                        \*          call opened the breaker, if nothing but requests
                        \*          refused by the open breaker came since; or -1
    downstreamStreak,   \* history: consecutive failed downstream calls
    audit_cache,        \* middleware.audit_cache
    rq                  \* rq[t]: the HTTP request thread t is serving, and its progress

rateVars == <<rate_limit_cache, rl, admittedMinute, admittedHour, rateRejections>>
costVars == <<cost_cache, cl, admittedCost, admittedCount, rejectedCost>>
breakerVars == <<circuit_breaker_failures, last_failure_time, results_cache, pr,
                 streak, cleanStart, sinceSuccess, prevStreak, openedAt,
                 downstreamStreak>>
pipeVars == <<audit_cache, rq>>
vars == <<now, pc, resp, started, rateVars, costVars, breakerVars, pipeVars>>

----------------------------------------------------------------------------
(* Bounds of the model *)

NumThreads == 2
\* at most MaxRequests requests are started in a run
MaxRequests == 4
\* AI_CONFIG['RATE_LIMITS']['GEMINI'], scaled down (60 / 1000 in config.py)
GeminiRequestsPerMinute == 2
GeminiRequestsPerHour == 3
\* COST_LIMIT_PER_DAY of GEMINI in cost units, scaled down (100.0 in config.py)
GeminiCostLimitPerDay == 4
\* estimated costs are drawn from 0..MaxCost cost units
MaxCost == 2
\* the clock of the cost ledger runs over the days 0..MaxDay
MaxDay == 1
\* the breaker's clock runs over 150-second slots 0..MaxBreakerSlot
MaxBreakerSlot == 3
\* no request starts once MaxFailures failures were recorded without a success
MaxFailures == 7
\* the clock runs over the hours 0..MaxHour
MaxHour == 1
\* AI_CONFIG['RATE_LIMITS'] of TRANSLATE and SPEECH, scaled down
\* (100 / 2000 / 50.0 and 30 / 500 / 75.0 in config.py)
TranslateRequestsPerMinute == 3
TranslateRequestsPerHour == 4
TranslateCostLimitPerDay == 2
SpeechRequestsPerMinute == 1
SpeechRequestsPerHour == 1
SpeechCostLimitPerDay == 1
\* the clock of the admission pipeline runs over the minutes 0..MaxPipeMinute
MaxPipeMinute == 1
\* at most MaxPipeRequests HTTP requests are served in a run
MaxPipeRequests == 2
\* requests made in the runs where a few requests race
MaxRaceRequests == 2
\* calls made in the runs where several users and services meet
MaxIsoRequests == 2

Threads == 1..NumThreads

----------------------------------------------------------------------------
(* Program constants *)

MinutePeriod == 60
HourPeriod == 3600
RateLimitCacheTtl == 3600
DayPeriod == 86400
CostCacheTtl == 86400
AuditCacheTtl == 86400
ResultsCacheTtl == 3600
circuit_breaker_threshold == 5
circuit_breaker_timeout == 300

AI_CONFIG ==
    [RATE_LIMITS |->
        [GEMINI |-> [REQUESTS_PER_MINUTE |-> GeminiRequestsPerMinute,
                     REQUESTS_PER_HOUR   |-> GeminiRequestsPerHour,
                     COST_LIMIT_PER_DAY  |-> GeminiCostLimitPerDay],
         TRANSLATE |-> [REQUESTS_PER_MINUTE |-> TranslateRequestsPerMinute,
                        REQUESTS_PER_HOUR   |-> TranslateRequestsPerHour,
                        COST_LIMIT_PER_DAY  |-> TranslateCostLimitPerDay],
         SPEECH |-> [REQUESTS_PER_MINUTE |-> SpeechRequestsPerMinute,
                     REQUESTS_PER_HOUR   |-> SpeechRequestsPerHour,
                     COST_LIMIT_PER_DAY  |-> SpeechCostLimitPerDay]]]

----------------------------------------------------------------------------
(* cachetools.TTLCache, as the program uses it *)

None == <<>>
Some(v) == <<v>>
IsNone(o) == o = <<>>
Val(o) == o[1]

\* cache.get(key): a stored item is returned while the timer is below its
\* expiry, None afterwards and for a missing key
CacheGet(cache, key, time) ==
    IF key \in DOMAIN cache /\ time < cache[key].expires
    THEN Some(cache[key].value)
    ELSE None

\* cache[key] = value: expired items are dropped first, then the item is
\* stored with expiry time + ttl
CachePut_HalfTtl(cache, key, value, time, ttl) ==
    LET live == {k \in DOMAIN cache : time < cache[k].expires}
    IN  [k \in live \cup {key} |->
            IF k = key THEN [value |-> value, expires |-> time + ttl \div 2]
            ELSE cache[k]]

CachePut(cache, key, value, time, ttl) ==
    LET live == {k \in DOMAIN cache : time < cache[k].expires}
    IN  [k \in live \cup {key} |->
            IF k = key THEN [value |-> value, expires |-> time + ttl]
            ELSE cache[k]]

EmptyCache == [k \in {} |-> 0]

\* history counters are total functions read with a default of 0
Count(f, key) == IF key \in DOMAIN f THEN f[key] ELSE 0
Bump(f, key, by) ==
    [k \in DOMAIN f \cup {key} |-> IF k = key THEN Count(f, key) + by ELSE f[k]]

----------------------------------------------------------------------------
(* Responses *)

NoResp == [status |-> 0, error |-> "", retryAfter |-> 0]
Ok == [status |-> 200, error |-> "", retryAfter |-> 0]
Reject(status, error, retryAfter) ==
    [status |-> status, error |-> error, retryAfter |-> retryAfter]

----------------------------------------------------------------------------
(* The clock *)

RateInstants ==
    {h * HourPeriod + m * MinutePeriod + s :
        h \in 0..MaxHour, m \in {0, 59}, s \in {0, 59}}

CostInstants == {d * DayPeriod + s : d \in 0..MaxDay, s \in {0, DayPeriod - 1}}

\* instants a half timeout apart, each followed by the next second: the gaps
\* between them fall below, on and above circuit_breaker_timeout
BreakerInstants ==
    {k * (circuit_breaker_timeout \div 2) + o : k \in 0..MaxBreakerSlot, o \in {0, 1}}

\* the concurrent specifications look at requests racing within a window and
\* at one rollover of the minute window
ConcInstants == {0, 59, 60}

Tick(instants) == \E time \in instants : time > now /\ now' = time

----------------------------------------------------------------------------
(* rate_limiter *)

WindowStart(time, period) == (time \div period) * period

RateLimitKey_NoService(user_id, service, window_start) ==
    user_id \o ":" \o ToString(window_start)
RateLimitKey_NoWindow(user_id, service, window_start) ==
    user_id \o ":" \o service
RateLimitKey(user_id, service, window_start) ==
    user_id \o ":" \o service \o ":" \o ToString(window_start)

HourlyKey(user_id, service, hourly_window) ==
    user_id \o ":" \o service \o ":hourly:" \o ToString(hourly_window)

RateLimitInfo(user_id, request_count, window_start, limit) ==
    [user_id |-> user_id, request_count |-> request_count,
     window_start |-> window_start, limit |-> limit]

NoRl == [user_id |-> "", service |-> "", now |-> 0,
         window_start |-> 0, hourly_window |-> 0,
         rate_limit_key |-> "", hourly_key |-> "",
         minute_limit |-> None, hourly_limit |-> None,
         priorMinute |-> 0, priorHour |-> 0, ran |-> FALSE,
         cacheAtStart |-> EmptyCache]

\* `limit and limit.request_count >= config[...]`
LimitReached_Off(limit, max) == ~IsNone(limit) /\ Val(limit).request_count > max
LimitReached(limit, max) == ~IsNone(limit) /\ Val(limit).request_count >= max

\* lines 144 and 152: `60 - (now - window_start)`, `3600 - (now - hourly_window)`
RetryAfter_Short(period, time, window_start) == period - (time - window_start) - 1
RetryAfter_Elapsed(period, time, window_start) == time - window_start
RetryAfter(period, time, window_start) == period - (time - window_start)

\* what the history keeps of a rejection
Rejection(variant, user_id, service, window_start, time, retryAfter) ==
    [variant |-> variant, user_id |-> user_id, service |-> service,
     window_start |-> window_start, time |-> time, retryAfter |-> retryAfter]

\* `limit.request_count + 1 if limit else 1`
NextCount_Keep(limit) == IF IsNone(limit) THEN 1 ELSE Val(limit).request_count
NextCount(limit) == IF IsNone(limit) THEN 1 ELSE Val(limit).request_count + 1

\* lines 124-134: the caller's identity, the time and the two window keys
RL_Start(t, user_id, service) ==
    /\ pc[t] = "idle"
    /\ started < MaxRequests
    /\ started' = started + 1
    /\ LET ws == WindowStart(now, MinutePeriod)
           hw == WindowStart(now, HourPeriod)
           key == RateLimitKey(user_id, service, ws)
           hkey == HourlyKey(user_id, service, hw)
       IN  rl' = [rl EXCEPT ![t] =
                    [NoRl EXCEPT !.user_id = user_id, !.service = service,
                                 !.now = now,
                                 !.window_start = ws, !.hourly_window = hw,
                                 !.rate_limit_key = key, !.hourly_key = hkey,
                                 !.cacheAtStart = rate_limit_cache,
                                 !.priorMinute =
                                    Count(admittedMinute, <<user_id, service, ws>>),
                                 !.priorHour =
                                    Count(admittedHour, <<user_id, service, hw>>)]]
    /\ pc' = [pc EXCEPT ![t] = "rl_check_minute"]
    /\ resp' = [resp EXCEPT ![t] = NoResp]
    /\ UNCHANGED <<now, rate_limit_cache, admittedMinute, admittedHour, rateRejections, costVars, breakerVars, pipeVars>>

\* lines 137-145: the minute window's entry is read and checked
RL_CheckMinute_HourFirst(t) ==
    /\ pc[t] = "rl_check_minute"
    /\ LET config == AI_CONFIG.RATE_LIMITS[rl[t].service]
           minute_limit == CacheGet(rate_limit_cache, rl[t].rate_limit_key, now)
           hourly_limit == CacheGet(rate_limit_cache, rl[t].hourly_key, now)
       IN  \/ /\ LimitReached(hourly_limit, config.REQUESTS_PER_HOUR)
              /\ resp' = [resp EXCEPT ![t] =
                    Reject(429, "Hourly rate limit exceeded",
                           RetryAfter(HourPeriod, rl[t].now, rl[t].hourly_window))]
              /\ pc' = [pc EXCEPT ![t] = "done"]
              /\ UNCHANGED rl
           \/ /\ ~LimitReached(hourly_limit, config.REQUESTS_PER_HOUR)
              /\ LimitReached(minute_limit, config.REQUESTS_PER_MINUTE)
              /\ resp' = [resp EXCEPT ![t] =
                    Reject(429, "Rate limit exceeded",
                           RetryAfter(MinutePeriod, rl[t].now, rl[t].window_start))]
              /\ pc' = [pc EXCEPT ![t] = "done"]
              /\ UNCHANGED rl
           \/ /\ ~LimitReached(hourly_limit, config.REQUESTS_PER_HOUR)
              /\ ~LimitReached(minute_limit, config.REQUESTS_PER_MINUTE)
              /\ rl' = [rl EXCEPT ![t].minute_limit = minute_limit]
              /\ pc' = [pc EXCEPT ![t] = "rl_check_hour"]
              /\ UNCHANGED resp
    /\ UNCHANGED <<now, started, rate_limit_cache, admittedMinute, admittedHour,
                   rateRejections, costVars, breakerVars, pipeVars>>
RL_CheckMinute(t) ==
    /\ pc[t] = "rl_check_minute"
    /\ LET config == AI_CONFIG.RATE_LIMITS[rl[t].service]
           minute_limit == CacheGet(rate_limit_cache, rl[t].rate_limit_key, now)
       IN  \/ /\ LimitReached(minute_limit, config.REQUESTS_PER_MINUTE)
              /\ resp' = [resp EXCEPT ![t] =
                    Reject(429, "Rate limit exceeded",
                           RetryAfter(MinutePeriod, rl[t].now, rl[t].window_start))]
              /\ pc' = [pc EXCEPT ![t] = "done"]
              /\ rateRejections' = rateRejections \cup
                    {Rejection("minute", rl[t].user_id, rl[t].service, rl[t].window_start,
                               rl[t].now,
                               RetryAfter(MinutePeriod, rl[t].now, rl[t].window_start))}
              /\ UNCHANGED rl
           \/ /\ ~LimitReached(minute_limit, config.REQUESTS_PER_MINUTE)
              /\ rl' = [rl EXCEPT ![t].minute_limit = minute_limit]
              /\ pc' = [pc EXCEPT ![t] = "rl_check_hour"]
              /\ UNCHANGED <<resp, rateRejections>>
    /\ UNCHANGED <<now, started, rate_limit_cache, admittedMinute, admittedHour, costVars, breakerVars, pipeVars>>

\* lines 147-153: the hour window's entry is read and checked
RL_CheckHour(t) ==
    /\ pc[t] = "rl_check_hour"
    /\ LET config == AI_CONFIG.RATE_LIMITS[rl[t].service]
           hourly_limit == CacheGet(rate_limit_cache, rl[t].hourly_key, now)
       IN  \/ /\ LimitReached(hourly_limit, config.REQUESTS_PER_HOUR)
              /\ resp' = [resp EXCEPT ![t] =
                    Reject(429, "Hourly rate limit exceeded",
                           RetryAfter(HourPeriod, rl[t].now, rl[t].hourly_window))]
              /\ pc' = [pc EXCEPT ![t] = "done"]
              /\ rateRejections' = rateRejections \cup
                    {Rejection("hour", rl[t].user_id, rl[t].service, rl[t].hourly_window,
                               rl[t].now,
                               RetryAfter(HourPeriod, rl[t].now, rl[t].hourly_window))}
              /\ UNCHANGED rl
           \/ /\ ~LimitReached(hourly_limit, config.REQUESTS_PER_HOUR)
              /\ rl' = [rl EXCEPT ![t].hourly_limit = hourly_limit]
              /\ pc' = [pc EXCEPT ![t] = "rl_write_minute"]
              /\ UNCHANGED <<resp, rateRejections>>
    /\ UNCHANGED <<now, started, rate_limit_cache, admittedMinute, admittedHour, costVars, breakerVars, pipeVars>>

\* lines 156, 159-165: the minute counter is stored from the value read
RL_WriteMinute(t) ==
    /\ pc[t] = "rl_write_minute"
    /\ LET config == AI_CONFIG.RATE_LIMITS[rl[t].service]
       IN  rate_limit_cache' =
             CachePut(rate_limit_cache, rl[t].rate_limit_key,
                      RateLimitInfo(rl[t].user_id, NextCount(rl[t].minute_limit),
                                    rl[t].window_start,
                                    config.REQUESTS_PER_MINUTE),
                      now, RateLimitCacheTtl)
    /\ pc' = [pc EXCEPT ![t] = "rl_write_hour"]
    /\ UNCHANGED <<now, started, resp, rl, admittedMinute, admittedHour, rateRejections, costVars, breakerVars, pipeVars>>

\* lines 157, 167-173: the hour counter is stored from the value read
RL_WriteHour(t) ==
    /\ pc[t] = "rl_write_hour"
    /\ LET config == AI_CONFIG.RATE_LIMITS[rl[t].service]
       IN  rate_limit_cache' =
             CachePut(rate_limit_cache, rl[t].hourly_key,
                      RateLimitInfo(rl[t].user_id, NextCount(rl[t].hourly_limit),
                                    rl[t].hourly_window,
                                    config.REQUESTS_PER_HOUR),
                      now, RateLimitCacheTtl)
    /\ pc' = [pc EXCEPT ![t] = "rl_handler"]
    /\ UNCHANGED <<now, started, resp, rl, admittedMinute, admittedHour, rateRejections, costVars, breakerVars, pipeVars>>

\* line 175: the wrapped handler runs
RL_Handler(t) ==
    /\ pc[t] = "rl_handler"
    /\ admittedMinute' =
          Bump(admittedMinute, <<rl[t].user_id, rl[t].service, rl[t].window_start>>, 1)
    /\ admittedHour' =
          Bump(admittedHour, <<rl[t].user_id, rl[t].service, rl[t].hourly_window>>, 1)
    /\ rl' = [rl EXCEPT ![t].ran = TRUE]
    /\ resp' = [resp EXCEPT ![t] = Ok]
    /\ pc' = [pc EXCEPT ![t] = "done"]
    /\ UNCHANGED <<now, started, rate_limit_cache, rateRejections, costVars, breakerVars, pipeVars>>

\* the response leaves; the thread serves the next request
RL_Return(t) ==
    /\ pc[t] = "done"
    /\ rl[t] # NoRl
    /\ pc' = [pc EXCEPT ![t] = "idle"]
    /\ rl' = [rl EXCEPT ![t] = NoRl]
    /\ resp' = [resp EXCEPT ![t] = NoResp]
    /\ UNCHANGED <<now, started, rate_limit_cache, admittedMinute, admittedHour, rateRejections, costVars, breakerVars, pipeVars>>

RateStepOn(t, services) ==
    \/ \E user_id \in {"u1"}, service \in services : RL_Start(t, user_id, service)
    \/ RL_CheckMinute(t)
    \/ RL_CheckHour(t)
    \/ RL_WriteMinute(t)
    \/ RL_WriteHour(t)
    \/ RL_Handler(t)
    \/ RL_Return(t)

RateStep(t) == RateStepOn(t, {"GEMINI"})

\* The admission code between reading the time and storing the counters does no
\* I/O; where requests are handled one after another the clock advances between
\* requests and while the wrapped handler runs, not inside that code.
InAdmission(t) ==
    pc[t] \in {"rl_check_minute", "rl_check_hour", "rl_write_minute", "rl_write_hour"}

TickRate ==
    /\ \A t \in Threads : ~InAdmission(t)
    /\ Tick(RateInstants)
    /\ UNCHANGED <<pc, resp, started, rateVars, costVars, breakerVars, pipeVars>>

----------------------------------------------------------------------------
(* check_cost_limits *)

\* time.strftime('%Y-%m-%d') for a clock in UTC: the civil date of the day
\* number time \div 86400, counted from 1970-01-01
Pad2(n) == IF n < 10 THEN "0" \o ToString(n) ELSE ToString(n)

Today_Fixed(time) == "1970-01-01"
Today(time) ==
    LET z == (time \div DayPeriod) + 719468
        era == z \div 146097
        doe == z - era * 146097
        yoe == (doe - doe \div 1460 + doe \div 36524 - doe \div 146096) \div 365
        doy == doe - (365 * yoe + yoe \div 4 - yoe \div 100)
        mp == (5 * doy + 2) \div 153
        d == doy - (153 * mp + 2) \div 5 + 1
        m == IF mp < 10 THEN mp + 3 ELSE mp - 9
        y == yoe + era * 400 + (IF m <= 2 THEN 1 ELSE 0)
    IN  ToString(y) \o "-" \o Pad2(m) \o "-" \o Pad2(d)

CostKey(user_id, service, today) == user_id \o ":" \o service \o ":" \o today

CostMonitoring(user_id, service, cost, request_count, timestamp) ==
    [user_id |-> user_id, service |-> service, cost |-> cost,
     request_count |-> request_count, timestamp |-> timestamp]

NoCl == [user_id |-> "", service |-> "", estimated_cost |-> 0,
         day |-> 0, cost_key |-> "", daily_cost |-> None,
         priorCost |-> 0, result |-> FALSE, raised |-> FALSE,
         ledgerAtStart |-> EmptyCache, storeFailed |-> FALSE]

\* `daily_cost.cost if daily_cost else 0.0`
CurrentCost(daily_cost) == IF IsNone(daily_cost) THEN 0 ELSE Val(daily_cost).cost

\* `current_cost + estimated_cost > config['COST_LIMIT_PER_DAY']`
ExceedsCostLimit_Geq(current_cost, estimated_cost, limit) ==
    current_cost + estimated_cost >= limit
ExceedsCostLimit_OwnCost(current_cost, estimated_cost, limit) ==
    estimated_cost > limit
ExceedsCostLimit(current_cost, estimated_cost, limit) ==
    current_cost + estimated_cost > limit

\* lines 189-190: the day and the ledger key
CC_Start(t, user_id, service, estimated_cost) ==
    /\ pc[t] = "idle"
    /\ started < MaxRequests
    /\ started' = started + 1
    /\ cl' = [cl EXCEPT ![t] =
                [NoCl EXCEPT !.user_id = user_id, !.service = service,
                             !.estimated_cost = estimated_cost,
                             !.day = now \div DayPeriod,
                             !.cost_key = CostKey(user_id, service, Today(now)),
                             !.ledgerAtStart = cost_cache,
                             !.priorCost =
                                Count(admittedCost,
                                      <<user_id, service, now \div DayPeriod>>)]]
    /\ pc' = [pc EXCEPT ![t] = "cc_read"]
    /\ UNCHANGED <<now, resp, rateVars, cost_cache, admittedCost, admittedCount, rejectedCost, breakerVars, pipeVars>>

\* lines 193-198: the ledger entry is read and checked against the cap
CC_Read_StoresOnReject(t) ==
    /\ pc[t] = "cc_read"
    /\ cl[t].service \in DOMAIN AI_CONFIG.RATE_LIMITS
    /\ LET config == AI_CONFIG.RATE_LIMITS[cl[t].service]
           daily_cost == CacheGet(cost_cache, cl[t].cost_key, now)
       IN  \/ /\ ExceedsCostLimit(CurrentCost(daily_cost), cl[t].estimated_cost,
                                  config.COST_LIMIT_PER_DAY)
              /\ cl' = [cl EXCEPT ![t].result = FALSE]
              /\ pc' = [pc EXCEPT ![t] = "done"]
              /\ cost_cache' =
                    CachePut(cost_cache, cl[t].cost_key,
                             CostMonitoring(cl[t].user_id, cl[t].service,
                                            CurrentCost(daily_cost),
                                            NextCount(None), now),
                             now, CostCacheTtl)
              /\ rejectedCost' =
                    Bump(rejectedCost, <<cl[t].user_id, cl[t].service, cl[t].day>>, 1)
           \/ /\ ~ExceedsCostLimit(CurrentCost(daily_cost), cl[t].estimated_cost,
                                   config.COST_LIMIT_PER_DAY)
              /\ cl' = [cl EXCEPT ![t].daily_cost = daily_cost]
              /\ pc' = [pc EXCEPT ![t] = "cc_write"]
              /\ UNCHANGED <<cost_cache, rejectedCost>>
    /\ UNCHANGED <<now, resp, started, rateVars, admittedCost, admittedCount,
                   breakerVars, pipeVars>>
CC_Read(t) ==
    /\ pc[t] = "cc_read"
    /\ cl[t].service \in DOMAIN AI_CONFIG.RATE_LIMITS
    /\ LET config == AI_CONFIG.RATE_LIMITS[cl[t].service]
           daily_cost == CacheGet(cost_cache, cl[t].cost_key, now)
       IN  \/ /\ ExceedsCostLimit(CurrentCost(daily_cost), cl[t].estimated_cost,
                                  config.COST_LIMIT_PER_DAY)
              /\ cl' = [cl EXCEPT ![t].result = FALSE]
              /\ pc' = [pc EXCEPT ![t] = "done"]
              /\ rejectedCost' =
                    Bump(rejectedCost, <<cl[t].user_id, cl[t].service, cl[t].day>>, 1)
           \/ /\ ~ExceedsCostLimit(CurrentCost(daily_cost), cl[t].estimated_cost,
                                   config.COST_LIMIT_PER_DAY)
              /\ cl' = [cl EXCEPT ![t].daily_cost = daily_cost]
              /\ pc' = [pc EXCEPT ![t] = "cc_write"]
              /\ UNCHANGED rejectedCost
    /\ UNCHANGED <<now, resp, started, rateVars, cost_cache, admittedCost, admittedCount,
                   breakerVars, pipeVars>>

\* lines 201-212: the entry is stored from the value read; the call returns True
CC_Write(t) ==
    /\ pc[t] = "cc_write"
    /\ LET daily_cost == cl[t].daily_cost
           new_cost == CurrentCost(daily_cost) + cl[t].estimated_cost
           new_count == IF IsNone(daily_cost) THEN 1
                        ELSE Val(daily_cost).request_count + 1
           ledger == <<cl[t].user_id, cl[t].service, cl[t].day>>
       IN  /\ cost_cache' =
                CachePut(cost_cache, cl[t].cost_key,
                         CostMonitoring(cl[t].user_id, cl[t].service,
                                        new_cost, new_count, now),
                         now, CostCacheTtl)
           /\ admittedCost' = Bump(admittedCost, ledger, cl[t].estimated_cost)
           /\ admittedCount' = Bump(admittedCount, ledger, 1)
    /\ cl' = [cl EXCEPT ![t].result = TRUE]
    /\ pc' = [pc EXCEPT ![t] = "done"]
    /\ UNCHANGED <<now, resp, started, rateVars, rejectedCost, breakerVars, pipeVars>>

\* lines 214-216: what the call gives when the ledger store raised
MonitoringErrorResult_FailClosed == [result |-> FALSE, raised |-> FALSE]
MonitoringErrorResult == [result |-> TRUE, raised |-> FALSE]

\* line 194 raises: the lookup in the ledger store fails
CC_ReadFails(t) ==
    /\ pc[t] = "cc_read"
    /\ cl' = [cl EXCEPT ![t].result = MonitoringErrorResult.result,
                        ![t].raised = MonitoringErrorResult.raised,
                        ![t].storeFailed = TRUE]
    /\ pc' = [pc EXCEPT ![t] = "done"]
    /\ UNCHANGED <<now, resp, started, rateVars, cost_cache, admittedCost, admittedCount,
                   rejectedCost, breakerVars, pipeVars>>

\* lines 204-210 raise: the update of the ledger store fails
CC_WriteFails(t) ==
    /\ pc[t] = "cc_write"
    /\ cl' = [cl EXCEPT ![t].result = MonitoringErrorResult.result,
                        ![t].raised = MonitoringErrorResult.raised,
                        ![t].storeFailed = TRUE]
    /\ pc' = [pc EXCEPT ![t] = "done"]
    /\ UNCHANGED <<now, resp, started, rateVars, cost_cache, admittedCost, admittedCount,
                   rejectedCost, breakerVars, pipeVars>>

\* line 193 raises KeyError for a service without configured limits; the
\* except at 214-216 takes it like any other exception
CC_UnknownService(t) ==
    /\ pc[t] = "cc_read"
    /\ cl[t].service \notin DOMAIN AI_CONFIG.RATE_LIMITS
    /\ cl' = [cl EXCEPT ![t].result = MonitoringErrorResult.result,
                        ![t].raised = MonitoringErrorResult.raised]
    /\ pc' = [pc EXCEPT ![t] = "done"]
    /\ UNCHANGED <<now, resp, started, rateVars, cost_cache, admittedCost, admittedCount,
                   rejectedCost, breakerVars, pipeVars>>

\* the result reaches the caller
CC_Return(t) ==
    /\ pc[t] = "done"
    /\ cl[t] # NoCl
    /\ pc' = [pc EXCEPT ![t] = "idle"]
    /\ cl' = [cl EXCEPT ![t] = NoCl]
    /\ UNCHANGED <<now, resp, started, rateVars, cost_cache, admittedCost, admittedCount, rejectedCost, breakerVars, pipeVars>>

CostStep(t) ==
    \/ \E estimated_cost \in 0..MaxCost : CC_Start(t, "u1", "GEMINI", estimated_cost)
    \/ CC_Read(t)
    \/ CC_Write(t)
    \/ CC_Return(t)

InCostCheck(t) == pc[t] \in {"cc_read", "cc_write"}

TickCost ==
    /\ \A t \in Threads : ~InCostCheck(t)
    /\ Tick(CostInstants)
    /\ UNCHANGED <<pc, resp, started, rateVars, costVars, breakerVars, pipeVars>>

TickCostConc == Tick(ConcInstants) /\ UNCHANGED <<pc, resp, started, rateVars, costVars, breakerVars, pipeVars>>

----------------------------------------------------------------------------
(* AIResultsProcessor: process_results and the circuit breaker *)

SubmissionIds == {"sub1"}

\* what a request carries: well formed, a required key missing (KeyError in
\* AIResultsRequest), or verification results that fail validation
Inputs == {"ok", "missing_field", "invalid_results"}

Unavailable == "Smart contract integration temporarily unavailable"

ResultsKey(submission_id) == "results_" \o submission_id

CacheDel_All(cache, key) == [k \in {} |-> cache[k]]
CacheDel(cache, key) == [k \in DOMAIN cache \ {key} |-> cache[k]]

\* _is_circuit_breaker_open: the value returned
IsOpenReturn_Leq(failures, last, time) ==
    IF failures <= circuit_breaker_threshold THEN FALSE
    ELSE IF time - last > circuit_breaker_timeout THEN FALSE
    ELSE TRUE
IsOpenReturn_Strict(failures, last, time) ==
    IF failures < circuit_breaker_threshold THEN FALSE
    ELSE IF time - last >= circuit_breaker_timeout THEN FALSE
    ELSE TRUE
IsOpenReturn(failures, last, time) ==
    IF failures < circuit_breaker_threshold THEN FALSE
    ELSE IF time - last > circuit_breaker_timeout THEN FALSE
    ELSE TRUE

\* _is_circuit_breaker_open: circuit_breaker_failures after the call
IsOpenFailures_NoReset(failures, last, time) == failures
IsOpenFailures(failures, last, time) ==
    IF failures < circuit_breaker_threshold THEN failures
    ELSE IF time - last > circuit_breaker_timeout THEN 0
    ELSE failures

\* line 114: circuit_breaker_failures after a successful call
FailuresAfterSuccess_Keep(failures) == failures
FailuresAfterSuccess(failures) == 0

\* the history variables after _is_circuit_breaker_open has run
CheckHistory(failures, last, time) ==
    IF IsOpenFailures(failures, last, time) # failures
    THEN /\ streak' = 0
         /\ cleanStart' = (IsOpenFailures(failures, last, time) = 0)
         /\ openedAt' = -1
         /\ downstreamStreak' = 0
    ELSE UNCHANGED <<streak, cleanStart, openedAt, downstreamStreak>>

NoPr == [op |-> "", submission_id |-> "", input |-> "",
         error |-> "", result |-> "", txHash |-> None,
         loaded_failures |-> 0,
         stats_failures |-> 0, stats_open |-> FALSE,
         arrival |-> 0, wasCached |-> FALSE, wasOpen |-> FALSE,
         preFailures |-> 0, preLast |-> 0, preElapsed |-> 0, preOpenedAt |-> -1,
         preStreak |-> 0, preClean |-> FALSE,
         called |-> FALSE, records |-> 0]

\* lines 49-73: the request is built and validated, the results cache is
\* looked up, the breaker is checked
PR_Start(t, submission_id, input) ==
    /\ pc[t] = "idle"
    /\ sinceSuccess < MaxFailures
    /\ LET cached_result == CacheGet(results_cache, ResultsKey(submission_id), now)
           open == IsOpenReturn(circuit_breaker_failures, last_failure_time, now)
           failures == IsOpenFailures(circuit_breaker_failures, last_failure_time, now)
           base == [NoPr EXCEPT !.op = "process_results",
                                !.submission_id = submission_id, !.input = input,
                                !.arrival = now,
                                !.wasCached = ~IsNone(cached_result),
                                !.wasOpen =
                                    /\ circuit_breaker_failures >= circuit_breaker_threshold
                                    /\ now - last_failure_time <= circuit_breaker_timeout,
                                !.preFailures = circuit_breaker_failures,
                                !.preLast = last_failure_time,
                                !.preOpenedAt = openedAt]
       IN  \/ /\ input = "missing_field"
              /\ pr' = [pr EXCEPT ![t] =
                    [base EXCEPT !.error = "KeyError"]]
              /\ pc' = [pc EXCEPT ![t] = "pr_except_load"]
              /\ UNCHANGED <<circuit_breaker_failures, streak, cleanStart, openedAt,
                             downstreamStreak>>
           \/ /\ input = "invalid_results"
              /\ pr' = [pr EXCEPT ![t] =
                    [base EXCEPT !.error = "ValueError"]]
              /\ pc' = [pc EXCEPT ![t] = "pr_except_load"]
              /\ UNCHANGED <<circuit_breaker_failures, streak, cleanStart, openedAt,
                             downstreamStreak>>
           \/ /\ input = "ok"
              /\ ~IsNone(cached_result)
              /\ pr' = [pr EXCEPT ![t] =
                    [base EXCEPT !.result = "cached",
                                 !.txHash = Some(Val(cached_result).txHash)]]
              /\ pc' = [pc EXCEPT ![t] = "done"]
              /\ UNCHANGED <<circuit_breaker_failures, streak, cleanStart, openedAt,
                             downstreamStreak>>
           \/ /\ input = "ok"
              /\ IsNone(cached_result)
              /\ open
              /\ pr' = [pr EXCEPT ![t] =
                    [base EXCEPT !.error = Unavailable]]
              /\ pc' = [pc EXCEPT ![t] = "pr_except_load"]
              /\ circuit_breaker_failures' = failures
              /\ CheckHistory(circuit_breaker_failures, last_failure_time, now)
           \/ /\ input = "ok"
              /\ IsNone(cached_result)
              /\ ~open
              /\ pr' = [pr EXCEPT ![t] = base]
              /\ pc' = [pc EXCEPT ![t] = "pr_downstream"]
              /\ circuit_breaker_failures' = failures
              /\ CheckHistory(circuit_breaker_failures, last_failure_time, now)
    /\ UNCHANGED <<now, resp, started, rateVars, costVars, last_failure_time,
                   results_cache, sinceSuccess, prevStreak, pipeVars>>

\* line 76: _process_verification_results calls the smart contract integration,
\* which returns a transaction or fails (lines 190-192)
PR_Downstream(t, succeeds) ==
    /\ pc[t] = "pr_downstream"
    /\ \/ /\ succeeds
          /\ pr' = [pr EXCEPT ![t].called = TRUE,
                              ![t].txHash = Some(<<pr[t].submission_id, now>>)]
          /\ pc' = [pc EXCEPT ![t] = "pr_success"]
       \/ /\ ~succeeds
          /\ pr' = [pr EXCEPT ![t].called = TRUE,
                              ![t].error = "Results processing failed"]
          /\ pc' = [pc EXCEPT ![t] = "pr_except_load"]
    /\ UNCHANGED <<now, resp, started, rateVars, costVars,
                   circuit_breaker_failures, last_failure_time, results_cache,
                   streak, cleanStart, sinceSuccess, prevStreak, openedAt,
                   downstreamStreak, pipeVars>>

\* lines 78-116: the result is cached, the failure count is reset, the
\* response is returned
PR_Success(t) ==
    /\ pc[t] = "pr_success"
    /\ results_cache' =
          CachePut(results_cache, ResultsKey(pr[t].submission_id),
                   [txHash |-> Val(pr[t].txHash)], now, ResultsCacheTtl)
    /\ circuit_breaker_failures' = FailuresAfterSuccess(circuit_breaker_failures)
    /\ pr' = [pr EXCEPT ![t].result = "processed", ![t].records = @ + 1]
    /\ pc' = [pc EXCEPT ![t] = "done"]
    /\ streak' = 0
    /\ cleanStart' = (circuit_breaker_failures' = 0)
    /\ prevStreak' = sinceSuccess
    /\ sinceSuccess' = 0
    /\ openedAt' = -1
    /\ downstreamStreak' = 0
    /\ UNCHANGED <<now, resp, started, rateVars, costVars, last_failure_time, pipeVars>>

\* lines 118-122, 236: the except branch; circuit_breaker_failures is loaded
PR_ExceptLoad(t) ==
    /\ pc[t] = "pr_except_load"
    /\ pr' = [pr EXCEPT ![t].loaded_failures = circuit_breaker_failures]
    /\ pc' = [pc EXCEPT ![t] = "pr_except_store"]
    /\ UNCHANGED <<now, resp, started, rateVars, costVars,
                   circuit_breaker_failures, last_failure_time, results_cache,
                   streak, cleanStart, sinceSuccess, prevStreak, openedAt,
                   downstreamStreak, pipeVars>>

\* lines 236-240, 124-138: the incremented count and the failure time are
\* stored, the exception is raised again
PR_ExceptStore(t) ==
    /\ pc[t] = "pr_except_store"
    /\ circuit_breaker_failures' = pr[t].loaded_failures + 1
    /\ last_failure_time' = now
    /\ pr' = [pr EXCEPT ![t].result = "raised", ![t].records = @ + 1]
    /\ pc' = [pc EXCEPT ![t] = "done"]
    /\ streak' = streak + 1
    /\ sinceSuccess' = sinceSuccess + 1
    /\ downstreamStreak' =
          IF pr[t].called THEN downstreamStreak + 1
          ELSE IF circuit_breaker_failures < circuit_breaker_threshold THEN 0
          ELSE downstreamStreak
    /\ openedAt' =
          IF pr[t].called /\ downstreamStreak' = circuit_breaker_threshold
          THEN now
          ELSE IF pr[t].error = Unavailable THEN openedAt
          ELSE -1
    /\ UNCHANGED <<now, resp, started, rateVars, costVars, results_cache,
                   cleanStart, prevStreak, pipeVars>>

\* get_processing_stats, lines 244-250: the count is read, then the breaker
\* is checked
GetProcessingStats(t) ==
    /\ pc[t] = "idle"
    /\ pr' = [pr EXCEPT ![t] =
          [NoPr EXCEPT !.op = "get_processing_stats",
                       !.arrival = now,
                       !.preFailures = circuit_breaker_failures,
                       !.preLast = last_failure_time,
                       !.preElapsed = now - last_failure_time,
                       !.preStreak = streak,
                       !.preClean = cleanStart,
                       !.stats_failures = circuit_breaker_failures,
                       !.stats_open =
                          IsOpenReturn(circuit_breaker_failures, last_failure_time, now),
                       !.result = "stats"]]
    /\ circuit_breaker_failures' =
          IsOpenFailures(circuit_breaker_failures, last_failure_time, now)
    /\ CheckHistory(circuit_breaker_failures, last_failure_time, now)
    /\ pc' = [pc EXCEPT ![t] = "done"]
    /\ UNCHANGED <<now, resp, started, rateVars, costVars, last_failure_time,
                   results_cache, sinceSuccess, prevStreak, pipeVars>>

\* retry_failed_submission, lines 264-277
RetryFailedSubmission(t, submission_id) ==
    /\ pc[t] = "idle"
    /\ LET key == ResultsKey(submission_id)
           open == IsOpenReturn(circuit_breaker_failures, last_failure_time, now)
           checked == IsOpenFailures(circuit_breaker_failures, last_failure_time, now)
           failures == IF open
                       THEN (IF checked - 1 > 0 THEN checked - 1 ELSE 0)
                       ELSE checked
       IN  /\ results_cache' =
                IF ~IsNone(CacheGet(results_cache, key, now))
                THEN CacheDel(results_cache, key)
                ELSE results_cache
           /\ circuit_breaker_failures' = failures
           /\ IF failures # circuit_breaker_failures
              THEN /\ streak' = 0
                   /\ cleanStart' = (failures = 0)
                   /\ openedAt' = -1
                   /\ downstreamStreak' = 0
              ELSE UNCHANGED <<streak, cleanStart, openedAt, downstreamStreak>>
    /\ pr' = [pr EXCEPT ![t] =
          [NoPr EXCEPT !.op = "retry_failed_submission",
                       !.submission_id = submission_id,
                       !.arrival = now,
                       !.preFailures = circuit_breaker_failures,
                       !.preLast = last_failure_time,
                       !.result = "retry"]]
    /\ pc' = [pc EXCEPT ![t] = "done"]
    /\ UNCHANGED <<now, resp, started, rateVars, costVars, last_failure_time,
                   sinceSuccess, prevStreak, pipeVars>>

\* the result reaches the caller
PR_Return(t) ==
    /\ pc[t] = "done"
    /\ pr[t] # NoPr
    /\ pc' = [pc EXCEPT ![t] = "idle"]
    /\ pr' = [pr EXCEPT ![t] = NoPr]
    /\ resp' = [resp EXCEPT ![t] = NoResp]
    /\ UNCHANGED <<now, started, rateVars, costVars,
                   circuit_breaker_failures, last_failure_time, results_cache,
                   streak, cleanStart, sinceSuccess, prevStreak, openedAt,
                   downstreamStreak, pipeVars>>

BreakerStep(t) ==
    \/ \E submission_id \in SubmissionIds, input \in Inputs :
            PR_Start(t, submission_id, input)
    \/ \E succeeds \in BOOLEAN : PR_Downstream(t, succeeds)
    \/ PR_Success(t)
    \/ PR_ExceptLoad(t)
    \/ PR_ExceptStore(t)
    \/ GetProcessingStats(t)
    \/ \E submission_id \in SubmissionIds : RetryFailedSubmission(t, submission_id)
    \/ PR_Return(t)

\* time passes between requests and while the downstream call runs
TickBreaker ==
    /\ \A t \in Threads : pc[t] \in {"idle", "pr_downstream"}
    /\ Tick(BreakerInstants)
    /\ UNCHANGED <<pc, resp, started, rateVars, costVars, breakerVars, pipeVars>>

----------------------------------------------------------------------------
(* log_audit_event and the audit store *)

AuditLog(user_id, action, endpoint, timestamp, request_id, success, error) ==
    [user_id |-> user_id, action |-> action, endpoint |-> endpoint,
     timestamp |-> timestamp, request_id |-> request_id,
     success |-> success, error |-> error]

\* line 221: f"{event.user_id}:{int(time.time())}"
AuditKey(user_id, time) == user_id \o ":" \o ToString(time)

\* what can go wrong inside log_audit_event: nothing, the store of line 222,
\* or the emission of lines 225-234 (after the store)
AuditFaults == {"none", "store", "emit"}

\* lines 220-237: whether the call raises to its caller
AuditRaises_Propagate(fault) == fault # "none"
AuditRaises(fault) == FALSE

\* line 222: audit_cache[audit_key] = event
AuditStore(cache, event, time) ==
    CachePut(cache, AuditKey(event.user_id, time), event, time, AuditCacheTtl)

\* lines 220-237: the store after the call
LogAuditEvent(cache, event, time, fault) ==
    IF fault = "store" THEN cache ELSE AuditStore(cache, event, time)

----------------------------------------------------------------------------
(* authenticate_token *)

\* the Authorization header of a request
Credentials ==
    {"no_header", "not_bearer", "expired", "tampered", "valid", "valid_without_userId"}

\* line 55: the token, or None
Token(credential) ==
    IF credential \in {"no_header", "not_bearer"} THEN None ELSE Some(credential)

\* line 71: jwt.decode
Decode_NoExpiry(token) ==
    CASE token = "expired" -> "InvalidTokenError"
      [] token = "tampered" -> "InvalidTokenError"
      [] OTHER -> "decoded"
Decode(token) ==
    CASE token = "expired" -> "ExpiredSignatureError"
      [] token = "tampered" -> "InvalidTokenError"
      [] OTHER -> "decoded"

\* line 74: decoded.get('userId')
DecodedUserId(token) == IF token = "valid" THEN "u1" ELSE "None"

Endpoints == {"/gemini/verify", "/translate", "/speech-to-text", "/ai-results",
              "/test-unknown"}

\* the service tag each route passes to rate_limiter
RouteService(endpoint) ==
    CASE endpoint = "/gemini/verify" -> "GEMINI"
      [] endpoint = "/translate" -> "TRANSLATE"
      [] endpoint = "/speech-to-text" -> "SPEECH"
      [] endpoint = "/ai-results" -> "GEMINI"
      [] OTHER -> "UNKNOWN_SERVICE"

NoRq == [id |-> 0, endpoint |-> "", credential |-> "", user_id |-> "",
         estimated_cost |-> 0,
         identity |-> "", handlerRan |-> FALSE,
         rateDecision |-> "", costDecision |-> "", rejection |-> "",
         operationCalls |-> 0,
         authAudits |-> 0, rejectionAudits |-> 0,
         auditFaulted |-> FALSE,
         rateAtStart |-> EmptyCache, costAtStart |-> EmptyCache]

UnhandledError == Reject(500, "Internal server error", 0)

Faulty(fault) == fault # "none"

\* lines 54-87 and 89-115, up to the call of the wrapped handler
AP_Authenticate(t, endpoint, credential, secretsOk, fault) ==
    /\ pc[t] = "idle"
    /\ started < MaxPipeRequests
    /\ started' = started + 1
    /\ LET id == started + 1
           token == Token(credential)
           request_id == ToString(id)
           base == [NoRq EXCEPT !.id = id, !.endpoint = endpoint,
                                !.credential = credential,
                                !.rateAtStart = rate_limit_cache,
                                !.costAtStart = cost_cache]
           failed(error) ==
               LogAuditEvent(audit_cache,
                   AuditLog("unknown", "authenticate", endpoint, now, request_id,
                            FALSE, error),
                   now, fault)
           rejected == [base EXCEPT !.identity = "rejected", !.authAudits = 1,
                                    !.auditFaulted = Faulty(fault)]
       IN  \/ /\ IsNone(token)
              /\ audit_cache' = failed("Access token required")
              /\ rq' = [rq EXCEPT ![t] = rejected]
              /\ resp' = [resp EXCEPT ![t] =
                    IF AuditRaises(fault) THEN UnhandledError
                    ELSE Reject(401, "Access token required", 0)]
              /\ pc' = [pc EXCEPT ![t] = "done"]
           \/ /\ ~IsNone(token)
              /\ ~secretsOk
              /\ rq' = [rq EXCEPT ![t] = [base EXCEPT !.identity = "unavailable"]]
              /\ resp' = [resp EXCEPT ![t] =
                    Reject(500, "Authentication service unavailable", 0)]
              /\ pc' = [pc EXCEPT ![t] = "done"]
              /\ UNCHANGED audit_cache
           \/ /\ ~IsNone(token)
              /\ secretsOk
              /\ Decode(Val(token)) = "ExpiredSignatureError"
              /\ audit_cache' = failed("Token expired")
              /\ rq' = [rq EXCEPT ![t] = rejected]
              /\ resp' = [resp EXCEPT ![t] =
                    IF AuditRaises(fault) THEN UnhandledError
                    ELSE Reject(403, "Token expired", 0)]
              /\ pc' = [pc EXCEPT ![t] = "done"]
           \/ /\ ~IsNone(token)
              /\ secretsOk
              /\ Decode(Val(token)) = "InvalidTokenError"
              /\ audit_cache' = failed("Invalid token")
              /\ rq' = [rq EXCEPT ![t] = rejected]
              /\ resp' = [resp EXCEPT ![t] =
                    IF AuditRaises(fault) THEN UnhandledError
                    ELSE Reject(403, "Invalid or expired token", 0)]
              /\ pc' = [pc EXCEPT ![t] = "done"]
           \/ /\ ~IsNone(token)
              /\ secretsOk
              /\ Decode(Val(token)) = "decoded"
              /\ LET user_id == DecodedUserId(Val(token))
                     logged == LogAuditEvent(audit_cache,
                                  AuditLog(user_id, "authenticate", endpoint, now,
                                           request_id, TRUE, ""),
                                  now, fault)
                     verified == [base EXCEPT !.user_id = user_id,
                                              !.identity = "verified",
                                              !.authAudits = 1,
                                              !.auditFaulted = Faulty(fault)]
                 IN  /\ audit_cache' = logged
                     /\ IF AuditRaises(fault)
                        THEN /\ rq' = [rq EXCEPT ![t] = verified]
                             /\ resp' = [resp EXCEPT ![t] =
                                   Reject(500, "Authentication service unavailable", 0)]
                             /\ pc' = [pc EXCEPT ![t] = "done"]
                        ELSE /\ rq' = [rq EXCEPT ![t] =
                                   [verified EXCEPT !.handlerRan = TRUE]]
                             /\ resp' = [resp EXCEPT ![t] = NoResp]
                             /\ pc' = [pc EXCEPT ![t] = "ap_rate"]
    /\ UNCHANGED <<now, rateVars, costVars, breakerVars>>

----------------------------------------------------------------------------
(* The routes of main.py behind authenticate_token and rate_limiter *)

\* lines 177-179: AI_CONFIG['RATE_LIMITS'][service] raised KeyError at line
\* 137, before any entry is read or stored
UnknownServiceDecision_Stores(cache, user_id, service, time) ==
    [decision |-> "unknown_service",
     cache |-> CachePut(cache, RateLimitKey(user_id, service,
                                            WindowStart(time, MinutePeriod)),
                        RateLimitInfo(user_id, 1, WindowStart(time, MinutePeriod), 0),
                        time, RateLimitCacheTtl),
     resp |-> Reject(500, "Service configuration error", 0)]
UnknownServiceDecision(cache, user_id, service, time) ==
    [decision |-> "unknown_service", cache |-> cache,
     resp |-> Reject(500, "Service configuration error", 0)]

\* rate_limiter, lines 124-179, run without interruption: the decision, the
\* response of a rejection and the cache afterwards
RateLimiterDecision(cache, user_id, service, time) ==
    LET window_start == WindowStart(time, MinutePeriod)
        hourly_window == WindowStart(time, HourPeriod)
        rate_limit_key == RateLimitKey(user_id, service, window_start)
        hourly_key == HourlyKey(user_id, service, hourly_window)
        minute_limit == CacheGet(cache, rate_limit_key, time)
        hourly_limit == CacheGet(cache, hourly_key, time)
    IN  IF user_id = "None"
        THEN [decision |-> "unauthenticated", cache |-> cache,
              resp |-> Reject(401, "Authentication required for rate limiting", 0)]
        ELSE IF service \notin DOMAIN AI_CONFIG.RATE_LIMITS
        THEN UnknownServiceDecision(cache, user_id, service, time)
        ELSE LET config == AI_CONFIG.RATE_LIMITS[service]
             IN  IF LimitReached(minute_limit, config.REQUESTS_PER_MINUTE)
                 THEN [decision |-> "minute", cache |-> cache,
                       resp |-> Reject(429, "Rate limit exceeded",
                                       RetryAfter(MinutePeriod, time, window_start))]
                 ELSE IF LimitReached(hourly_limit, config.REQUESTS_PER_HOUR)
                 THEN [decision |-> "hour", cache |-> cache,
                       resp |-> Reject(429, "Hourly rate limit exceeded",
                                       RetryAfter(HourPeriod, time, hourly_window))]
                 ELSE [decision |-> "admitted", resp |-> NoResp,
                       cache |->
                          CachePut(
                             CachePut(cache, rate_limit_key,
                                      RateLimitInfo(user_id, NextCount(minute_limit),
                                                    window_start,
                                                    config.REQUESTS_PER_MINUTE),
                                      time, RateLimitCacheTtl),
                             hourly_key,
                             RateLimitInfo(user_id, NextCount(hourly_limit),
                                           hourly_window, config.REQUESTS_PER_HOUR),
                             time, RateLimitCacheTtl)]

\* check_cost_limits, lines 189-216, run without interruption: the result and
\* the ledger afterwards
CheckCostLimits(cache, user_id, service, estimated_cost, time) ==
    LET cost_key == CostKey(user_id, service, Today(time))
        daily_cost == CacheGet(cache, cost_key, time)
    IN  IF service \notin DOMAIN AI_CONFIG.RATE_LIMITS
        THEN [result |-> TRUE, cache |-> cache]
        ELSE IF ExceedsCostLimit(CurrentCost(daily_cost), estimated_cost,
                                 AI_CONFIG.RATE_LIMITS[service].COST_LIMIT_PER_DAY)
        THEN [result |-> FALSE, cache |-> cache]
        ELSE [result |-> TRUE,
              cache |->
                 CachePut(cache, cost_key,
                          CostMonitoring(user_id, service,
                                         CurrentCost(daily_cost) + estimated_cost,
                                         IF IsNone(daily_cost) THEN 1
                                         ELSE Val(daily_cost).request_count + 1,
                                         time),
                          time, CostCacheTtl)]

\* the wrapped handler of authenticate_token: rate_limiter's decorated function
AP_RateLimit_Through(t) ==
    /\ pc[t] = "ap_rate"
    /\ rq' = [rq EXCEPT ![t].rateDecision = "rejected", ![t].rejection = "minute"]
    /\ pc' = [pc EXCEPT ![t] = "ap_admit"]
    /\ UNCHANGED <<now, resp, started, rateVars, costVars, breakerVars, audit_cache>>
AP_RateLimit(t) ==
    /\ pc[t] = "ap_rate"
    /\ LET d == RateLimiterDecision(rate_limit_cache, rq[t].user_id,
                                    RouteService(rq[t].endpoint), now)
       IN  /\ rate_limit_cache' = d.cache
           /\ IF d.decision = "admitted"
              THEN /\ rq' = [rq EXCEPT ![t].rateDecision = "admitted"]
                   /\ pc' = [pc EXCEPT ![t] = "ap_admit"]
                   /\ UNCHANGED resp
              ELSE /\ rq' = [rq EXCEPT ![t].rateDecision = "rejected",
                                       ![t].rejection = d.decision]
                   /\ resp' = [resp EXCEPT ![t] = d.resp]
                   /\ pc' = [pc EXCEPT ![t] = "done"]
    /\ UNCHANGED <<now, started, rl, admittedMinute, admittedHour, rateRejections, costVars,
                   breakerVars, audit_cache>>

\* the action name and the request id the services give their audit entries
ServiceAction(endpoint) ==
    CASE endpoint = "/gemini/verify" -> "gemini_verification"
      [] endpoint = "/translate" -> "translate_text"
      [] endpoint = "/speech-to-text" -> "speech_to_text"
      [] OTHER -> "process_ai_results"

ServiceRequestId(endpoint, id, time) ==
    CASE endpoint = "/translate" -> "translate_" \o ToString(time)
      [] endpoint = "/speech-to-text" -> "speech_" \o ToString(time)
      [] OTHER -> ToString(id)

CostLimitMessage(endpoint) ==
    CASE endpoint = "/gemini/verify" -> "Daily cost limit exceeded for Gemini API"
      [] endpoint = "/translate" -> "Daily cost limit exceeded for Translate API"
      [] OTHER -> "Daily cost limit exceeded for Speech-to-Text API"

\* main.py, lines 43-48, 119-122, 147-150, 178-183
BadRequest(endpoint) ==
    CASE endpoint = "/translate" -> Reject(400, "Missing required field: text", 0)
      [] endpoint = "/speech-to-text" ->
            Reject(400, "Missing required field: audioUrl", 0)
      [] OTHER -> Reject(400, "Missing required fields", 0)

\* middleware.error_handler, lines 254-257
ErrorHandlerResponse == Reject(500, "Internal server error", 0)

\* an exception leaves a service: the service's except branch audits it and
\* raises it again; /gemini/verify maps the ValueError itself (main.py 75-87),
\* the other routes hand it to error_handler, which audits it once more
ServiceFailure(r, message, time, fault1, fault2) ==
    LET first == LogAuditEvent(audit_cache,
                    AuditLog(r.user_id, ServiceAction(r.endpoint), r.endpoint, time,
                             ServiceRequestId(r.endpoint, r.id, time), FALSE, message),
                    time, fault1)
    IN  IF r.endpoint = "/gemini/verify"
        THEN [audit |-> first, audits |-> 1, faults |-> Faulty(fault1),
              resp |-> IF message = CostLimitMessage(r.endpoint)
                       THEN Reject(429, "Cost limit exceeded", 0)
                       ELSE IF message = "Unable to access submitted file"
                       THEN Reject(404, "File not found", 0)
                       ELSE Reject(400, message, 0)]
        ELSE [audit |-> LogAuditEvent(first,
                            AuditLog(r.user_id, "error", r.endpoint, time,
                                     ToString(r.id), FALSE, message),
                            time, fault2),
              audits |-> 2, faults |-> Faulty(fault1) \/ Faulty(fault2),
              resp |-> ErrorHandlerResponse]

\* what fails in a service before it asks the cost governor
PrecheckMessage(endpoint) ==
    CASE endpoint = "/gemini/verify" -> "Gemini service initialization failed"
      [] endpoint = "/translate" -> "Text content is required"
      [] OTHER -> "Unable to access audio file"

\* the route handler up to the protected operation: the body is validated
\* (main.py), the service runs its own checks and asks check_cost_limits
\* (gemini_service.py 91-97, translate_service.py 59-72, speech_service.py 63-77)
AP_Admit(t, body, estimated_cost, precheckOk, fault1, fault2) ==
    /\ pc[t] = "ap_admit"
    /\ LET r == rq[t]
           service == RouteService(r.endpoint)
           c == CheckCostLimits(cost_cache, r.user_id, service, estimated_cost, now)
           fail(message) == ServiceFailure(r, message, now, fault1, fault2)
       IN  \/ /\ body = "bad"
              /\ resp' = [resp EXCEPT ![t] = BadRequest(r.endpoint)]
              /\ pc' = [pc EXCEPT ![t] = "done"]
              /\ UNCHANGED <<rq, cost_cache, audit_cache>>
           \/ /\ body = "ok"
              /\ r.endpoint = "/ai-results"
              /\ pc' = [pc EXCEPT ![t] = "ap_operation"]
              /\ UNCHANGED <<rq, resp, cost_cache, audit_cache>>
           \/ /\ body = "ok"
              /\ r.endpoint # "/ai-results"
              /\ ~precheckOk
              /\ audit_cache' = fail(PrecheckMessage(r.endpoint)).audit
              /\ rq' = [rq EXCEPT ![t].auditFaulted =
                                     @ \/ fail(PrecheckMessage(r.endpoint)).faults]
              /\ resp' = [resp EXCEPT ![t] = fail(PrecheckMessage(r.endpoint)).resp]
              /\ pc' = [pc EXCEPT ![t] = "done"]
              /\ UNCHANGED cost_cache
           \/ /\ body = "ok"
              /\ r.endpoint # "/ai-results"
              /\ precheckOk
              /\ ~c.result
              /\ cost_cache' = c.cache
              /\ audit_cache' = fail(CostLimitMessage(r.endpoint)).audit
              /\ rq' = [rq EXCEPT ![t].costDecision = "rejected",
                                  ![t].estimated_cost = estimated_cost,
                                  ![t].rejection = "cost",
                                  ![t].rejectionAudits =
                                     fail(CostLimitMessage(r.endpoint)).audits,
                                  ![t].auditFaulted =
                                     @ \/ fail(CostLimitMessage(r.endpoint)).faults]
              /\ resp' = [resp EXCEPT ![t] = fail(CostLimitMessage(r.endpoint)).resp]
              /\ pc' = [pc EXCEPT ![t] = "done"]
           \/ /\ body = "ok"
              /\ r.endpoint # "/ai-results"
              /\ precheckOk
              /\ c.result
              /\ cost_cache' = c.cache
              /\ rq' = [rq EXCEPT ![t].costDecision = "admitted",
                                  ![t].estimated_cost = estimated_cost]
              /\ pc' = [pc EXCEPT ![t] = "ap_operation"]
              /\ UNCHANGED <<resp, audit_cache>>
    /\ UNCHANGED <<now, started, rateVars, cl, admittedCost, admittedCount, rejectedCost, breakerVars>>

OperationFailedMessage(endpoint) ==
    CASE endpoint = "/gemini/verify" -> "AI text verification failed"
      [] endpoint = "/translate" -> "Translation failed"
      [] endpoint = "/speech-to-text" -> "Transcription failed"
      [] OTHER -> "Results processing failed"

\* the submission every /ai-results request of the model is about
PipeSubmission == "sub1"

\* the protected operation and what follows it: the AI API call of the three
\* services with its audit entry, or AIResultsProcessor.process_results
\* (lines 47-138) under /ai-results
AP_Operation_Refunds(t, succeeds, fault1, fault2) ==
    /\ pc[t] = "ap_operation"
    /\ rate_limit_cache' = IF succeeds THEN rate_limit_cache ELSE rq[t].rateAtStart
    /\ rq' = [rq EXCEPT ![t].operationCalls = @ + 1]
    /\ resp' = [resp EXCEPT ![t] = IF succeeds THEN Ok ELSE ErrorHandlerResponse]
    /\ pc' = [pc EXCEPT ![t] = "done"]
    /\ UNCHANGED <<now, started, rl, admittedMinute, admittedHour, rateRejections,
                   costVars, breakerVars, audit_cache>>
AP_Operation_RefundsCost(t, succeeds, fault1, fault2) ==
    /\ pc[t] = "ap_operation"
    /\ cost_cache' = IF succeeds THEN cost_cache ELSE rq[t].costAtStart
    /\ rq' = [rq EXCEPT ![t].operationCalls = @ + 1]
    /\ resp' = [resp EXCEPT ![t] = IF succeeds THEN Ok ELSE ErrorHandlerResponse]
    /\ pc' = [pc EXCEPT ![t] = "done"]
    /\ UNCHANGED <<now, started, rateVars, cl, admittedCost, admittedCount,
                   rejectedCost, breakerVars, audit_cache>>
AP_Operation(t, succeeds, fault1, fault2) ==
    /\ pc[t] = "ap_operation"
    /\ LET r == rq[t]
           fail(message) == ServiceFailure(r, message, now, fault1, fault2)
           success == LogAuditEvent(audit_cache,
                         AuditLog(r.user_id, ServiceAction(r.endpoint), r.endpoint, now,
                                  ServiceRequestId(r.endpoint, r.id, now), TRUE, ""),
                         now, fault1)
           cached_result == CacheGet(results_cache, ResultsKey(PipeSubmission), now)
           open == IsOpenReturn(circuit_breaker_failures, last_failure_time, now)
           checked == IsOpenFailures(circuit_breaker_failures, last_failure_time, now)
       IN  \/ /\ r.endpoint # "/ai-results"
              /\ succeeds
              /\ audit_cache' = success
              /\ rq' = [rq EXCEPT ![t].operationCalls = @ + 1,
                                  ![t].auditFaulted = @ \/ Faulty(fault1)]
              /\ resp' = [resp EXCEPT ![t] = Ok]
              /\ UNCHANGED <<circuit_breaker_failures, last_failure_time, results_cache>>
           \/ /\ r.endpoint # "/ai-results"
              /\ ~succeeds
              /\ audit_cache' = fail(OperationFailedMessage(r.endpoint)).audit
              /\ rq' = [rq EXCEPT ![t].operationCalls = @ + 1,
                                  ![t].auditFaulted =
                                     @ \/ fail(OperationFailedMessage(r.endpoint)).faults]
              /\ resp' = [resp EXCEPT ![t] =
                             fail(OperationFailedMessage(r.endpoint)).resp]
              /\ UNCHANGED <<circuit_breaker_failures, last_failure_time, results_cache>>
           \/ /\ r.endpoint = "/ai-results"
              /\ ~IsNone(cached_result)
              /\ resp' = [resp EXCEPT ![t] = Ok]
              /\ UNCHANGED <<rq, audit_cache, circuit_breaker_failures,
                             last_failure_time, results_cache>>
           \/ /\ r.endpoint = "/ai-results"
              /\ IsNone(cached_result)
              /\ open
              /\ circuit_breaker_failures' = checked + 1
              /\ last_failure_time' = now
              /\ audit_cache' = fail(Unavailable).audit
              /\ rq' = [rq EXCEPT ![t].rejection = "circuit_open",
                                  ![t].rejectionAudits = fail(Unavailable).audits,
                                  ![t].auditFaulted = @ \/ fail(Unavailable).faults]
              /\ resp' = [resp EXCEPT ![t] = fail(Unavailable).resp]
              /\ UNCHANGED results_cache
           \/ /\ r.endpoint = "/ai-results"
              /\ IsNone(cached_result)
              /\ ~open
              /\ succeeds
              /\ results_cache' =
                    CachePut(results_cache, ResultsKey(PipeSubmission),
                             [txHash |-> <<PipeSubmission, now>>], now, ResultsCacheTtl)
              /\ circuit_breaker_failures' = FailuresAfterSuccess(checked)
              /\ audit_cache' = success
              /\ rq' = [rq EXCEPT ![t].operationCalls = @ + 1,
                                  ![t].auditFaulted = @ \/ Faulty(fault1)]
              /\ resp' = [resp EXCEPT ![t] = Ok]
              /\ UNCHANGED last_failure_time
           \/ /\ r.endpoint = "/ai-results"
              /\ IsNone(cached_result)
              /\ ~open
              /\ ~succeeds
              /\ circuit_breaker_failures' = checked + 1
              /\ last_failure_time' = now
              /\ audit_cache' = fail(OperationFailedMessage(r.endpoint)).audit
              /\ rq' = [rq EXCEPT ![t].operationCalls = @ + 1,
                                  ![t].auditFaulted =
                                     @ \/ fail(OperationFailedMessage(r.endpoint)).faults]
              /\ resp' = [resp EXCEPT ![t] =
                             fail(OperationFailedMessage(r.endpoint)).resp]
              /\ UNCHANGED results_cache
    /\ pc' = [pc EXCEPT ![t] = "done"]
    /\ UNCHANGED <<now, started, rateVars, costVars, pr, streak, cleanStart,
                   sinceSuccess, prevStreak, openedAt, downstreamStreak>>

\* the response leaves; the thread serves the next request
AP_Return(t) ==
    /\ pc[t] = "done"
    /\ rq[t] # NoRq
    /\ pc' = [pc EXCEPT ![t] = "idle"]
    /\ rq' = [rq EXCEPT ![t] = NoRq]
    /\ resp' = [resp EXCEPT ![t] = NoResp]
    /\ UNCHANGED <<now, started, rateVars, costVars, breakerVars, audit_cache>>

\* the requests thread t serves arrive at the given routes
PipelineStepOn(t, routes) ==
    \/ \E endpoint \in routes, credential \in Credentials,
          secretsOk \in BOOLEAN, fault \in AuditFaults :
            AP_Authenticate(t, endpoint, credential, secretsOk, fault)
    \/ AP_RateLimit(t)
    \/ \E body \in {"ok", "bad"}, estimated_cost \in 1..MaxCost,
          precheckOk \in BOOLEAN, fault1 \in AuditFaults, fault2 \in AuditFaults :
            AP_Admit(t, body, estimated_cost, precheckOk, fault1, fault2)
    \/ \E succeeds \in BOOLEAN, fault1 \in AuditFaults, fault2 \in AuditFaults :
            AP_Operation(t, succeeds, fault1, fault2)
    \/ AP_Return(t)

PipelineStep(t) == PipelineStepOn(t, Endpoints)

\* the starts of the minutes: requests meet within a second and within an hour
PipeInstants == {m * MinutePeriod : m \in 0..MaxPipeMinute}

\* time passes between requests
TickPipe ==
    /\ \A t \in Threads : pc[t] = "idle"
    /\ Tick(PipeInstants)
    /\ UNCHANGED <<pc, resp, started, rateVars, costVars, breakerVars, pipeVars>>

----------------------------------------------------------------------------
(* The /ai-results route around process_results *)

\* main.py 188-197: the result is returned with 200; every exception goes to
\* error_handler
ResultsRouteResponse(result) ==
    IF result = "raised" THEN ErrorHandlerResponse ELSE Ok

\* main.py 190-197, middleware.py 239-257: the route answers; on an exception
\* error_handler audits it first
AR_Respond(t) ==
    /\ pc[t] = "done"
    /\ pr[t].op = "process_results"
    /\ resp[t] = NoResp
    /\ resp' = [resp EXCEPT ![t] = ResultsRouteResponse(pr[t].result)]
    /\ audit_cache' =
          IF pr[t].result = "raised"
          THEN LogAuditEvent(audit_cache,
                             AuditLog("u1", "error", "/ai-results", now, "unknown",
                                      FALSE, pr[t].error),
                             now, "none")
          ELSE audit_cache
    /\ UNCHANGED <<now, pc, started, rateVars, costVars, breakerVars, rq>>

----------------------------------------------------------------------------
(* Specifications *)

Init ==
    /\ now = 0
    /\ pc = [t \in Threads |-> "idle"]
    /\ resp = [t \in Threads |-> NoResp]
    /\ rate_limit_cache = EmptyCache
    /\ rl = [t \in Threads |-> NoRl]
    /\ admittedMinute = EmptyCache
    /\ admittedHour = EmptyCache
    /\ rateRejections = {}
    /\ started = 0
    /\ cost_cache = EmptyCache
    /\ cl = [t \in Threads |-> NoCl]
    /\ admittedCost = EmptyCache
    /\ admittedCount = EmptyCache
    /\ rejectedCost = EmptyCache
    /\ circuit_breaker_failures = 0
    /\ last_failure_time = 0
    /\ results_cache = EmptyCache
    /\ pr = [t \in Threads |-> NoPr]
    /\ streak = 0
    /\ cleanStart = TRUE
    /\ sinceSuccess = 0
    /\ prevStreak = 0
    /\ openedAt = -1
    /\ downstreamStreak = 0
    /\ audit_cache = EmptyCache
    /\ rq = [t \in Threads |-> NoRq]

\* one worker: requests are handled one after another
Worker == 1

NextRateSeq == TickRate \/ RateStep(Worker)
SpecRateSeq == Init /\ [][NextRateSeq]_vars

\* requests for two services, one after another
NextRateServices == TickRate \/ RateStepOn(Worker, {"GEMINI", "SPEECH"})
SpecRateServices == Init /\ [][NextRateServices]_vars

\* requests one after another at the ends of a minute and at the instants the
\* retry hints of their rejections name: the next minute, the next hour
RetryInstants == {0, MinutePeriod - 1, MinutePeriod, HourPeriod}
TickRetry ==
    /\ \A t \in Threads : ~InAdmission(t)
    /\ Tick(RetryInstants)
    /\ UNCHANGED <<pc, resp, started, rateVars, costVars, breakerVars, pipeVars>>
NextRateRetry == TickRetry \/ RateStepOn(Worker, {"GEMINI", "SPEECH"})
SpecRateRetry == Init /\ [][NextRateRetry]_vars

\* rate_limiter and check_cost_limits called one after another for several
\* users and services; one user id holds the separator of the keys
IsoUsers == {"u1", "u1:SPEECH"}
IsoServices == {"GEMINI", "SPEECH"}
IsoInstants == {0, MinutePeriod, HourPeriod, DayPeriod}
IsoCosts == {0, MaxCost}
TickIso ==
    /\ \A t \in Threads : ~InAdmission(t) /\ ~InCostCheck(t)
    /\ Tick(IsoInstants)
    /\ UNCHANGED <<pc, resp, started, rateVars, costVars, breakerVars, pipeVars>>
NextIsolation ==
    \/ TickIso
    \/ \E user_id \in IsoUsers, service \in IsoServices :
          started < MaxIsoRequests /\ RL_Start(Worker, user_id, service)
    \/ RL_CheckMinute(Worker)
    \/ RL_CheckHour(Worker)
    \/ RL_WriteMinute(Worker)
    \/ RL_WriteHour(Worker)
    \/ RL_Handler(Worker)
    \/ RL_Return(Worker)
    \/ \E user_id \in IsoUsers, service \in IsoServices, estimated_cost \in IsoCosts :
          started < MaxIsoRequests /\ CC_Start(Worker, user_id, service, estimated_cost)
    \/ CC_Read(Worker)
    \/ CC_Write(Worker)
    \/ CC_Return(Worker)
SpecIsolation == Init /\ [][NextIsolation]_vars

\* rate_limiter and check_cost_limits called one after another around the
\* ends of a minute, an hour and a day
TtlInstants ==
    {0, MinutePeriod - 1, HourPeriod - 1, HourPeriod, DayPeriod - 1, DayPeriod}
TickTtl ==
    /\ \A t \in Threads : ~InAdmission(t) /\ ~InCostCheck(t)
    /\ Tick(TtlInstants)
    /\ UNCHANGED <<pc, resp, started, rateVars, costVars, breakerVars, pipeVars>>
NextTtl ==
    \/ TickTtl
    \/ started < MaxIsoRequests /\ RL_Start(Worker, "u1", "GEMINI")
    \/ RL_CheckMinute(Worker)
    \/ RL_CheckHour(Worker)
    \/ RL_WriteMinute(Worker)
    \/ RL_WriteHour(Worker)
    \/ RL_Handler(Worker)
    \/ RL_Return(Worker)
    \/ \E estimated_cost \in 0..MaxCost :
          started < MaxIsoRequests /\ CC_Start(Worker, "u1", "GEMINI", estimated_cost)
    \/ CC_Read(Worker)
    \/ CC_Write(Worker)
    \/ CC_Return(Worker)
SpecTtl == Init /\ [][NextTtl]_vars

TickRateConc == Tick(ConcInstants) /\ UNCHANGED <<pc, resp, started, rateVars, costVars, breakerVars, pipeVars>>

NextRateConc == TickRateConc \/ \E t \in Threads : RateStep(t)
SpecRateConc == Init /\ [][NextRateConc]_vars

NextCostSeq == TickCost \/ CostStep(Worker)
SpecCostSeq == Init /\ [][NextCostSeq]_vars

NextCostFault ==
    TickCost \/ CostStep(Worker) \/ CC_ReadFails(Worker) \/ CC_WriteFails(Worker)
SpecCostFault == Init /\ [][NextCostFault]_vars

\* check_cost_limits called for configured and for unconfigured services
NextCostConfig ==
    \/ TickCost
    \/ \E service \in {"GEMINI", "UNKNOWN_SERVICE"}, estimated_cost \in 0..MaxCost :
          CC_Start(Worker, "u1", service, estimated_cost)
    \/ CC_Read(Worker)
    \/ CC_Write(Worker)
    \/ CC_UnknownService(Worker)
    \/ CC_Return(Worker)
SpecCostConfig == Init /\ [][NextCostConfig]_vars

\* a few requests for the service with the smallest limits, on any threads
NextRateRace ==
    \/ TickRateConc
    \/ \E t \in Threads :
          \/ started < MaxRaceRequests /\ RL_Start(t, "u1", "SPEECH")
          \/ RL_CheckMinute(t)
          \/ RL_CheckHour(t)
          \/ RL_WriteMinute(t)
          \/ RL_WriteHour(t)
          \/ RL_Handler(t)
          \/ RL_Return(t)
SpecRateRace == Init /\ [][NextRateRace]_vars

NextCostRace ==
    \/ TickCostConc
    \/ \E t \in Threads :
          \/ \E estimated_cost \in 0..MaxCost :
                started < MaxRaceRequests /\ CC_Start(t, "u1", "SPEECH", estimated_cost)
          \/ CC_Read(t)
          \/ CC_Write(t)
          \/ CC_Return(t)
SpecCostRace == Init /\ [][NextCostRace]_vars

\* process_results behind its route, requests one after another
ResultsInstants == {0, circuit_breaker_timeout + 1}
TickResults ==
    /\ Tick(ResultsInstants)
    /\ UNCHANGED <<pc, resp, started, rateVars, costVars, breakerVars, pipeVars>>
\* process_results and retry_failed_submission called one after another for
\* two submissions
RetryIds == {"sub1", "sub2"}
NextRetry ==
    \/ TickResults
    \/ \E submission_id \in RetryIds : PR_Start(Worker, submission_id, "ok")
    \/ \E succeeds \in BOOLEAN : PR_Downstream(Worker, succeeds)
    \/ PR_Success(Worker)
    \/ PR_ExceptLoad(Worker)
    \/ PR_ExceptStore(Worker)
    \/ \E submission_id \in RetryIds : RetryFailedSubmission(Worker, submission_id)
    \/ PR_Return(Worker)
SpecRetry == Init /\ [][NextRetry]_vars

NextResultsRoute == TickResults \/ BreakerStep(Worker) \/ AR_Respond(Worker)
SpecResultsRoute == Init /\ [][NextResultsRoute]_vars

\* process_results called on any thread for well-formed requests that reach
\* the downstream call, within one second
NextBreakerRace ==
    \E t \in Threads :
        \/ \E submission_id \in SubmissionIds : PR_Start(t, submission_id, "ok")
        \/ \E succeeds \in BOOLEAN : PR_Downstream(t, succeeds)
        \/ PR_Success(t)
        \/ PR_ExceptLoad(t)
        \/ PR_ExceptStore(t)
        \/ PR_Return(t)
SpecBreakerRace == Init /\ [][NextBreakerRace]_vars

NextCostConc == TickCostConc \/ \E t \in Threads : CostStep(t)
SpecCostConc == Init /\ [][NextCostConc]_vars

NextSpeechRoute == TickPipe \/ PipelineStepOn(Worker, {"/speech-to-text"})
SpecSpeechRoute == Init /\ [][NextSpeechRoute]_vars

NextConfigRoute ==
    TickPipe \/ PipelineStepOn(Worker, {"/speech-to-text", "/test-unknown"})
SpecConfigRoute == Init /\ [][NextConfigRoute]_vars

NextPipeline == TickPipe \/ PipelineStep(Worker)
SpecPipeline == Init /\ [][NextPipeline]_vars

NextBreaker == TickBreaker \/ BreakerStep(Worker)
SpecBreaker == Init /\ [][NextBreaker]_vars

----------------------------------------------------------------------------
(* Claims about rate_limiter *)

MinuteLimitOf(service) == AI_CONFIG.RATE_LIMITS[service].REQUESTS_PER_MINUTE
HourLimitOf(service) == AI_CONFIG.RATE_LIMITS[service].REQUESTS_PER_HOUR

\* C1: requests handled one after another that all fall into one minute window
\* (none was admitted earlier in the same hour window): the first L of them run
\* the wrapped handler, every later one gets 429 'Rate limit exceeded' and the
\* handler does not run.  L is the service's REQUESTS_PER_MINUTE.
C1_SequentialMinuteLimit ==
    \A t \in Threads :
        (pc[t] = "done" /\ rl[t] # NoRl /\ rl[t].priorHour = rl[t].priorMinute) =>
            IF rl[t].priorMinute < MinuteLimitOf(rl[t].service)
            THEN resp[t] = Ok /\ rl[t].ran
            ELSE /\ resp[t].status = 429
                 /\ resp[t].error = "Rate limit exceeded"
                 /\ ~rl[t].ran

\* a request arrives when exactly L requests of its window were admitted, and
\* is rejected
C1_Witness ==
    \E t \in Threads :
        /\ pc[t] = "done"
        /\ rl[t].service = "GEMINI"
        /\ rl[t].priorMinute = MinuteLimitOf("GEMINI")
        /\ rl[t].priorHour = rl[t].priorMinute
        /\ resp[t].status = 429

\* C2: under every interleaving, the number of requests admitted in one minute
\* window is at most the per-minute limit and the number admitted in one hour
\* window is at most the per-hour limit.
C2_AdmittedWithinLimits ==
    /\ \A k \in DOMAIN admittedMinute : admittedMinute[k] <= MinuteLimitOf(k[2])
    /\ \A k \in DOMAIN admittedHour : admittedHour[k] <= HourLimitOf(k[2])

----------------------------------------------------------------------------
(* Claims about check_cost_limits *)

CostLimitOf(service) == AI_CONFIG.RATE_LIMITS[service].COST_LIMIT_PER_DAY

LedgerEntry(ledger) ==
    LET key == CostKey(ledger[1], ledger[2], Today(ledger[3] * DayPeriod))
    IN  IF key \in DOMAIN cost_cache THEN cost_cache[key].value
        ELSE CostMonitoring(ledger[1], ledger[2], 0, 0, 0)

\* C4: under every interleaving, the ledger's cumulative cost is the sum of the
\* estimated costs of the calls that returned True, its request_count is their
\* number, and the admitted total is at most the daily cap.
C4_LedgerMatchesAdmitted ==
    \A ledger \in DOMAIN admittedCost :
        /\ LedgerEntry(ledger).cost = admittedCost[ledger]
        /\ LedgerEntry(ledger).request_count = admittedCount[ledger]
        /\ admittedCost[ledger] <= CostLimitOf(ledger[2])

----------------------------------------------------------------------------
(* Claims about the circuit breaker of AIResultsProcessor *)

Stats == pr[Worker]

\* the specified meaning of "open": the count has reached the threshold and
\* at most the cooldown has passed since the last recorded failure
SpecOpen(failures, elapsed) ==
    failures >= circuit_breaker_threshold /\ elapsed <= circuit_breaker_timeout

\* C5: starting from failure count 0, _is_circuit_breaker_open (as called by
\* get_processing_stats) returns True after exactly `threshold` consecutive
\* recorded failures while at most the cooldown has passed since the last of
\* them, and returns False after any smaller number of failures.
C5_OpensAtThreshold ==
    (/\ pc[Worker] = "done"
     /\ Stats.op = "get_processing_stats"
     /\ Stats.preClean
     /\ Stats.preStreak <= circuit_breaker_threshold)
    => (Stats.stats_open <=>
            /\ Stats.preStreak = circuit_breaker_threshold
            /\ Stats.preElapsed <= circuit_breaker_timeout)

C5_Witness ==
    /\ pc[Worker] = "done"
    /\ Stats.op = "get_processing_stats"
    /\ Stats.preClean
    /\ Stats.preStreak = circuit_breaker_threshold
    /\ Stats.preElapsed <= circuit_breaker_timeout
    /\ Stats.stats_open

\* C6: a well-formed process_results request for a submission that is not
\* cached, arriving while the breaker is open, never reaches the downstream
\* call and ends with the integration-unavailable error.
C6_OpenFailsFast ==
    (/\ Stats.op = "process_results"
     /\ Stats.input = "ok"
     /\ ~Stats.wasCached
     /\ Stats.wasOpen)
    => /\ ~Stats.called
       /\ pc[Worker] \notin {"pr_downstream", "pr_success"}
       /\ Stats.error = Unavailable
       /\ pc[Worker] = "done" => Stats.result = "raised"

C6_Witness ==
    /\ pc[Worker] = "done"
    /\ Stats.op = "process_results"
    /\ Stats.input = "ok"
    /\ ~Stats.wasCached
    /\ Stats.wasOpen
    /\ Stats.preFailures = circuit_breaker_threshold
    /\ Stats.result = "raised"
    /\ Stats.error = Unavailable
    /\ ~Stats.called

\* C7: when the threshold-th consecutive failed downstream call opened the
\* breaker at time t, a well-formed, uncached request arriving later than
\* t + cooldown is not short-circuited, whatever was short-circuited in between.
C7_AllowedAfterCooldown ==
    (/\ Stats.op = "process_results"
     /\ Stats.input = "ok"
     /\ ~Stats.wasCached
     /\ Stats.preOpenedAt >= 0
     /\ Stats.arrival > Stats.preOpenedAt + circuit_breaker_timeout)
    => Stats.error # Unavailable

\* C8: with the count at the threshold or above, _is_circuit_breaker_open (as
\* called by get_processing_stats) returns False and leaves the count at 0 once
\* more than the cooldown has passed since the last recorded failure; at or
\* below the cooldown it returns True and leaves the count unchanged.
C8_CooldownReset ==
    (/\ pc[Worker] = "done"
     /\ Stats.op = "get_processing_stats"
     /\ Stats.preFailures >= circuit_breaker_threshold)
    => IF Stats.preElapsed > circuit_breaker_timeout
       THEN ~Stats.stats_open /\ circuit_breaker_failures = 0
       ELSE Stats.stats_open /\ circuit_breaker_failures = Stats.preFailures

C8_Witness ==
    /\ pc[Worker] = "done"
    /\ Stats.op = "get_processing_stats"
    /\ Stats.preFailures >= circuit_breaker_threshold
    /\ Stats.preElapsed > circuit_breaker_timeout
    /\ ~Stats.stats_open
    /\ circuit_breaker_failures = 0

\* C9: a successful downstream call leaves the failure count at 0, and the
\* count never exceeds the failures recorded since the last success, so the
\* breaker is open only after `threshold` failures with no success between.
C9_SuccessResets ==
    /\ (pc[Worker] = "done" /\ Stats.result = "processed")
          => circuit_breaker_failures = 0
    /\ circuit_breaker_failures <= sinceSuccess
    /\ (pc[Worker] = "done" /\ Stats.op = "get_processing_stats" /\ Stats.stats_open)
          => sinceSuccess >= circuit_breaker_threshold

C9_Witness ==
    /\ pc[Worker] = "done"
    /\ Stats.op = "get_processing_stats"
    /\ prevStreak = circuit_breaker_threshold - 1
    /\ sinceSuccess = circuit_breaker_threshold - 1
    /\ ~Stats.stats_open
    /\ Stats.stats_failures = circuit_breaker_threshold - 1

\* C10: a finished well-formed process_results request has recorded exactly one
\* of success / failure if it made the downstream call, and nothing if it
\* made none; in that case the failure count and the last-failure time are
\* what they were when it arrived.
C10_OneRecordPerAttempt ==
    (/\ pc[Worker] = "done"
     /\ Stats.op = "process_results"
     /\ Stats.input = "ok")
    => IF Stats.called
       THEN Stats.records = 1
       ELSE /\ Stats.records = 0
            /\ circuit_breaker_failures = Stats.preFailures
            /\ last_failure_time = Stats.preLast

----------------------------------------------------------------------------
(* Claims about the admission pipeline and the audit store *)

Req == rq[Worker]

\* C11: authenticate_token gives each credential one outcome and runs the
\* wrapped handler only for a token that decodes: no header or no 'Bearer '
\* prefix gets 401 'Access token required', an expired token 403 'Token
\* expired', a tampered one 403 'Invalid or expired token'.
C11_CredentialClassified ==
    Req # NoRq =>
       /\ Req.credential \in {"no_header", "not_bearer"} =>
             /\ resp[Worker] = Reject(401, "Access token required", 0)
             /\ ~Req.handlerRan
       /\ (Req.credential = "expired" /\ Req.identity # "unavailable") =>
             /\ resp[Worker] = Reject(403, "Token expired", 0)
             /\ ~Req.handlerRan
       /\ (Req.credential = "tampered" /\ Req.identity # "unavailable") =>
             /\ resp[Worker] = Reject(403, "Invalid or expired token", 0)
             /\ ~Req.handlerRan
       /\ Req.identity = "unavailable" => ~Req.handlerRan
       /\ Req.handlerRan =>
             /\ Req.credential \in {"valid", "valid_without_userId"}
             /\ Req.identity = "verified"

C11_Witness ==
    /\ pc[Worker] = "done"
    /\ Req.credential = "expired"
    /\ Req.identity = "rejected"
    /\ resp[Worker] = Reject(403, "Token expired", 0)
    /\ ~Req.handlerRan

\* C12: the stages run in the order identity, rate limiter, cost governor, and
\* a rejection ends the request: a request the identity stage rejected leaves
\* the rate windows and the cost ledger as they were, a request the rate
\* limiter rejected leaves the cost ledger as it was and never reaches the
\* protected operation.
C12_StagesInOrder ==
    Req # NoRq =>
       /\ Req.identity \in {"rejected", "unavailable"} =>
             /\ rate_limit_cache = Req.rateAtStart
             /\ cost_cache = Req.costAtStart
             /\ Req.rateDecision = "" /\ Req.costDecision = ""
             /\ Req.operationCalls = 0
       /\ Req.rateDecision = "rejected" =>
             /\ cost_cache = Req.costAtStart
             /\ Req.costDecision = ""
             /\ Req.operationCalls = 0
             /\ pc[Worker] = "done"
       /\ Req.rateDecision # "" => Req.identity = "verified"
       /\ Req.costDecision # "" => Req.rateDecision = "admitted"

C12_Witness ==
    /\ pc[Worker] = "done"
    /\ Req.identity = "verified"
    /\ Req.rateDecision = "rejected"
    /\ Req.rejection = "minute"
    /\ Req.costAtStart # EmptyCache
    /\ cost_cache = Req.costAtStart
    /\ Req.operationCalls = 0

\* C13: on every route the protected operation is invoked only for a request
\* whose identity was verified, that the rate limiter admitted and for which
\* check_cost_limits returned True.
C13_OperationOnlyWhenAdmitted ==
    Req.operationCalls > 0 =>
       /\ Req.identity = "verified"
       /\ Req.rateDecision = "admitted"
       /\ Req.costDecision = "admitted"

\* C17: every outcome of authenticate_token has made exactly one call of
\* log_audit_event with action 'authenticate' for the request.
C17_OneAuthenticateAudit ==
    (Req # NoRq /\ Req.identity # "") => Req.authAudits = 1

\* C18: every request rejected by the rate limiter (minute or hour window,
\* unknown service), by the cost governor or by the open breaker has made
\* exactly one call of log_audit_event for that rejection.
C18_OneAuditPerRejection ==
    (/\ pc[Worker] = "done"
     /\ Req.rejection \in {"minute", "hour", "unknown_service", "cost", "circuit_open"})
    => Req.rejectionAudits = 1

\* C19: no step removes or replaces an entry of the audit store that has not
\* expired.
C19_AuditAppendOnly ==
    [][\A k \in DOMAIN audit_cache :
          now' < audit_cache[k].expires =>
             /\ k \in DOMAIN audit_cache'
             /\ audit_cache'[k] = audit_cache[k]]_vars

\* C20: log_audit_event never raises: a request whose audit call failed gets
\* the outcome it would have got otherwise, and a verified request still
\* reaches its handler.
C20_AuditNeverFailsRequest ==
    (Req # NoRq /\ Req.auditFaulted) =>
       /\ Req.credential \in {"no_header", "not_bearer"} =>
             resp[Worker] = Reject(401, "Access token required", 0)
       /\ Req.identity = "rejected" => resp[Worker].status \in {401, 403}
       /\ Req.identity = "verified" => Req.handlerRan
       /\ resp[Worker] # UnhandledError \/ Req.operationCalls > 0
             \/ Req.costDecision = "rejected" \/ Req.rateDecision = "admitted"

C20_Witness ==
    /\ pc[Worker] = "done"
    /\ Req.auditFaulted
    /\ Req.authAudits = 1
    /\ audit_cache = EmptyCache
    /\ Req.identity = "verified"
    /\ Req.handlerRan
    /\ Req.operationCalls = 1
    /\ resp[Worker] = Ok

----------------------------------------------------------------------------
(* Claims about refusals, store failures and days of the cost ledger *)

\* C14: when check_cost_limits returns False the cost ledger is exactly as
\* it was when the call began: no entry is created, and the accumulated
\* cost, the request count and the timestamp of the caller's entry are the
\* ones stored before the call.
C14_RefusalLeavesLedger ==
    \A t \in Threads :
        (pc[t] = "done" /\ cl[t] # NoCl /\ ~cl[t].storeFailed /\ cl[t].result = FALSE) =>
            cost_cache = cl[t].ledgerAtStart

C14_Witness ==
    \E t \in Threads :
        /\ pc[t] = "done"
        /\ cl[t] # NoCl
        /\ cl[t].result = FALSE
        /\ ~IsNone(CacheGet(cost_cache, cl[t].cost_key, now))
        /\ Val(CacheGet(cost_cache, cl[t].cost_key, now)).timestamp < now
        /\ cost_cache = cl[t].ledgerAtStart

\* C15: when the ledger store fails during check_cost_limits, on the lookup
\* or on the update, the call returns True and raises nothing.
C15_StoreFailureFailsOpen ==
    \A t \in Threads :
        (pc[t] = "done" /\ cl[t].storeFailed) =>
            (cl[t].result = TRUE /\ ~cl[t].raised)

C15_Witness ==
    \E t \in Threads :
        /\ pc[t] = "done"
        /\ cl[t].storeFailed
        /\ cl[t].result = TRUE
        /\ cl[t].priorCost + cl[t].estimated_cost > CostLimitOf(cl[t].service)

\* C16: the ledger is kept per calendar day. After a refusal on day D, a
\* request of day D+1 is judged on the costs admitted on day D+1 alone, so
\* the first one whose cost is within the cap is admitted; and no request
\* of a later day changes a stored entry of an earlier day.
C16_NextDayAdmitted ==
    \A t \in Threads :
        (/\ pc[t] = "done"
         /\ cl[t] # NoCl
         /\ cl[t].day > 0
         /\ Count(rejectedCost, <<cl[t].user_id, cl[t].service, cl[t].day - 1>>) > 0)
        => (cl[t].result = FALSE <=>
                cl[t].priorCost + cl[t].estimated_cost > CostLimitOf(cl[t].service))

C16_EarlierDayKept ==
    \A t \in Threads : \A d \in 0..MaxDay :
        LET k == CostKey(cl[t].user_id, cl[t].service, Today(d * DayPeriod))
        IN  (/\ pc[t] \in {"cc_read", "cc_write"}
             /\ d < cl[t].day
             /\ now' = now
             /\ k \in DOMAIN cost_cache
             /\ now < cost_cache[k].expires)
            => (k \in DOMAIN cost_cache' /\ cost_cache'[k] = cost_cache[k])

C16_LedgerPerDay == [] C16_NextDayAdmitted /\ [][C16_EarlierDayKept]_vars

C16_Witness ==
    \E t \in Threads :
        /\ pc[t] = "done"
        /\ cl[t].day = 1
        /\ Count(rejectedCost, <<cl[t].user_id, cl[t].service, 0>>) > 0
        /\ cl[t].priorCost = 0
        /\ cl[t].estimated_cost > 0
        /\ cl[t].result = TRUE
        /\ ~IsNone(CacheGet(cost_cache,
                            CostKey(cl[t].user_id, cl[t].service, Today(0)), now))
        /\ ~IsNone(CacheGet(cost_cache, cl[t].cost_key, now))

----------------------------------------------------------------------------
(* Claims about configuration errors, rejections and the stored counters *)

\* C21: rate_limiter applied with a service that has no configured limits
\* answers 500 'Service configuration error', does not run the wrapped
\* handler and leaves every rate-window entry as it was.
C21_UnknownServiceRejected ==
    (Req # NoRq /\ Req.identity = "verified" /\ Req.user_id # "None"
       /\ RouteService(Req.endpoint) \notin DOMAIN AI_CONFIG.RATE_LIMITS
       /\ pc[Worker] # "ap_rate")
    => /\ pc[Worker] = "done"
       /\ resp[Worker] = Reject(500, "Service configuration error", 0)
       /\ Req.rejection = "unknown_service"
       /\ Req.costDecision = ""
       /\ Req.operationCalls = 0
       /\ rate_limit_cache = Req.rateAtStart

C21_Witness ==
    /\ pc[Worker] = "done"
    /\ Req.endpoint = "/test-unknown"
    /\ Req.rejection = "unknown_service"
    /\ Req.rateAtStart # EmptyCache
    /\ rate_limit_cache = Req.rateAtStart
    /\ resp[Worker].status = 500

\* C22: check_cost_limits called with a service that has no configured
\* daily cap surfaces a configuration error to its caller and does not admit
\* the request.
C22_UnknownServiceNotAdmitted ==
    \A t \in Threads :
        (pc[t] = "done" /\ cl[t] # NoCl
           /\ cl[t].service \notin DOMAIN AI_CONFIG.RATE_LIMITS)
        => (cl[t].raised /\ cl[t].result = FALSE)

\* C23: the retryAfter of every rate-limit rejection lies between 0 and the
\* period of its window (60 for the minute variant, 3600 for the hourly one),
\* and of two rejections in the same window the later one reports a strictly
\* smaller retryAfter.
C23_RetryAfterBounded ==
    /\ \A r \in rateRejections :
          /\ r.retryAfter >= 0
          /\ r.variant = "minute" => r.retryAfter <= MinutePeriod
          /\ r.variant = "hour" => r.retryAfter <= HourPeriod
    /\ \A r1, r2 \in rateRejections :
          (/\ r1.variant = r2.variant
           /\ r1.user_id = r2.user_id
           /\ r1.service = r2.service
           /\ r1.window_start = r2.window_start
           /\ r1.time < r2.time)
          => r2.retryAfter < r1.retryAfter
    /\ \A t \in Threads :
          (pc[t] = "done" /\ resp[t].status = 429) =>
             \E r \in rateRejections :
                r.time = rl[t].now /\ r.retryAfter = resp[t].retryAfter

C23_Witness ==
    \E r1, r2 \in rateRejections :
        /\ r1.variant = "hour" /\ r2.variant = "hour"
        /\ r1.service = r2.service
        /\ r1.window_start = r2.window_start
        /\ r1.time < r2.time
        /\ r2.retryAfter < r1.retryAfter

\* C27: rate_limiter checks the minute window before the hour window: when
\* the minute window is at its limit the rejection is the minute variant with
\* the retryAfter of the 60-second window, whatever the hour window holds; the
\* hourly variant is returned exactly when the minute window is under its
\* limit and the hour window is at its limit.
C27_MinuteBeforeHour ==
    \A t \in Threads :
        (pc[t] = "done" /\ rl[t] # NoRl) =>
            LET minuteFull == rl[t].priorMinute >= MinuteLimitOf(rl[t].service)
                hourFull == rl[t].priorHour >= HourLimitOf(rl[t].service)
            IN  /\ minuteFull =>
                      resp[t] = Reject(429, "Rate limit exceeded",
                                       MinutePeriod - (rl[t].now - rl[t].window_start))
                /\ (~minuteFull /\ hourFull) =>
                      resp[t] = Reject(429, "Hourly rate limit exceeded",
                                       HourPeriod - (rl[t].now - rl[t].hourly_window))
                /\ resp[t].error = "Hourly rate limit exceeded" =>
                      (~minuteFull /\ hourFull)

C27_Witness ==
    \E t \in Threads :
        /\ pc[t] = "done"
        /\ rl[t].service = "GEMINI"
        /\ rl[t].priorMinute >= MinuteLimitOf(rl[t].service)
        /\ rl[t].priorHour >= HourLimitOf(rl[t].service)
        /\ rl[t].now > 0
        /\ resp[t].error = "Rate limit exceeded"

\* the count stored for a window when the request began, 0 without an entry
CountAtStart(t, key) ==
    LET limit == CacheGet(rl[t].cacheAtStart, key, rl[t].now)
    IN  IF IsNone(limit) THEN 0 ELSE Val(limit).request_count

StoredCount(key) ==
    IF key \in DOMAIN rate_limit_cache
    THEN rate_limit_cache[key].value.request_count
    ELSE 0

\* C28: a request that was admitted has raised the stored count of its
\* minute window and of its hour window by exactly 1 each, an entry that was
\* missing being created at 1; a request rejected by either window check has
\* left every window entry as it was.
C28_AdmissionCountsOnce ==
    \A t \in Threads :
        (pc[t] = "done" /\ rl[t] # NoRl) =>
            IF rl[t].ran
            THEN /\ StoredCount(rl[t].rate_limit_key)
                       = CountAtStart(t, rl[t].rate_limit_key) + 1
                 /\ StoredCount(rl[t].hourly_key)
                       = CountAtStart(t, rl[t].hourly_key) + 1
            ELSE rate_limit_cache = rl[t].cacheAtStart

C28_Witness ==
    \E t \in Threads :
        /\ pc[t] = "done"
        /\ rl[t].ran
        /\ CountAtStart(t, rl[t].rate_limit_key) = 0
        /\ CountAtStart(t, rl[t].hourly_key) > 0
        /\ StoredCount(rl[t].rate_limit_key) = 1
        /\ StoredCount(rl[t].hourly_key) = CountAtStart(t, rl[t].hourly_key) + 1

\* C29: in every state, whatever the interleaving of the requests, the
\* request_count of every stored rate-window entry is at least 1 and at most
\* the configured limit of its window, per minute or per hour.
C29_StoredCountWithinLimit ==
    \A k \in DOMAIN rate_limit_cache :
        LET info == rate_limit_cache[k].value
        IN  /\ info.request_count >= 1
            /\ info.request_count <= info.limit
            /\ \A service \in DOMAIN AI_CONFIG.RATE_LIMITS :
                  /\ k = RateLimitKey(info.user_id, service, info.window_start)
                        => info.request_count <= MinuteLimitOf(service)
                  /\ k = HourlyKey(info.user_id, service, info.window_start)
                        => info.request_count <= HourLimitOf(service)

\* two requests raced through one window: both were admitted, one more than
\* the limit, and the entry holds the limit
C29_Witness ==
    \E k \in DOMAIN admittedMinute :
        /\ admittedMinute[k] > MinuteLimitOf(k[2])
        /\ StoredCount(RateLimitKey(k[1], k[2], k[3])) = MinuteLimitOf(k[2])
        /\ StoredCount(HourlyKey(k[1], k[2], WindowStart(k[3], HourPeriod)))
              = HourLimitOf(k[2])

\* C30: in every state, whatever the order or interleaving of the
\* check_cost_limits calls and for estimated costs of 0 or more, the cost
\* stored in every ledger entry is at most the daily cap of its service.
C30_StoredCostWithinCap ==
    \A k \in DOMAIN cost_cache :
        /\ cost_cache[k].value.cost >= 0
        /\ cost_cache[k].value.cost <= CostLimitOf(cost_cache[k].value.service)

\* two calls raced: both were admitted, their costs together are above the
\* cap, and the entry holds the cap
C30_Witness ==
    \E k \in DOMAIN admittedCost :
        /\ admittedCost[k] > CostLimitOf(k[2])
        /\ \E c \in DOMAIN cost_cache :
              /\ cost_cache[c].value.service = k[2]
              /\ cost_cache[c].value.cost = CostLimitOf(k[2])

\* C24: on every route that consults the cost governor a request refused for
\* its cost is answered 429, never with the internal server error.
C24_CostRejectionIs429 ==
    (pc[Worker] = "done" /\ Req.rejection = "cost") =>
        /\ resp[Worker].status = 429
        /\ resp[Worker] # ErrorHandlerResponse

\* C25: a request refused by the open circuit breaker is answered in the
\* service-unavailable category (503), not with the internal server error.
C25_CircuitOpenIs503 ==
    \A t \in Threads :
        (/\ pc[t] = "done"
         /\ pr[t].op = "process_results"
         /\ pr[t].error = Unavailable
         /\ resp[t] # NoResp)
        => /\ resp[t].status = 503
           /\ resp[t] # ErrorHandlerResponse

\* C26: the failure count is updated atomically under concurrent calls: it
\* always equals the number of failures recorded since the last success, so
\* k failures raise it by k and a success racing a failure leaves 0 or 1.
C26_BreakerCountAtomic ==
    circuit_breaker_failures = sinceSuccess

----------------------------------------------------------------------------
(* Claims about windows, the breaker's operations and the kept counters *)

\* C31: the minute and the hour window cap independently. A request of a
\* (user, service) that was rejected on an earlier minute window of the hour
\* is admitted in a later minute window exactly while that window and the
\* hour window are under their limits; and the requests admitted one after
\* another over all minute windows of an hour never exceed the hourly limit.
C31_WindowsCapIndependently ==
    /\ \A t \in Threads :
          (/\ pc[t] = "done"
           /\ rl[t] # NoRl
           /\ \E r \in rateRejections :
                 /\ r.variant = "minute"
                 /\ r.user_id = rl[t].user_id
                 /\ r.service = rl[t].service
                 /\ r.window_start < rl[t].window_start
                 /\ WindowStart(r.window_start, HourPeriod) = rl[t].hourly_window
           /\ rl[t].priorMinute < MinuteLimitOf(rl[t].service))
          => (rl[t].ran <=> rl[t].priorHour < HourLimitOf(rl[t].service))
    /\ \A k \in DOMAIN admittedHour : admittedHour[k] <= HourLimitOf(k[2])

C31_Witness ==
    \E t \in Threads :
        /\ pc[t] = "done"
        /\ rl[t].ran
        /\ rl[t].priorMinute = 0
        /\ rl[t].priorHour = MinuteLimitOf(rl[t].service)
        /\ rl[t].priorHour < HourLimitOf(rl[t].service)
        /\ \E r \in rateRejections :
              /\ r.variant = "minute"
              /\ r.service = rl[t].service
              /\ r.window_start < rl[t].window_start
              /\ WindowStart(r.window_start, HourPeriod) = rl[t].hourly_window

\* the breaker refuses requests: the count has reached the threshold and at
\* most the cooldown has passed since the last recorded failure
BreakerOpen ==
    SpecOpen(circuit_breaker_failures, now - last_failure_time)

\* C32: an open breaker stays open until the cooldown has passed since the
\* last failure or a downstream call succeeds: no other step, in particular
\* none of get_processing_stats and retry_failed_submission, closes it.
C32_OpenUntilCooldown ==
    [][(BreakerOpen /\ ~BreakerOpen') =>
          \/ now' - last_failure_time' > circuit_breaker_timeout
          \/ \E t \in Threads : pc[t] = "pr_success" /\ pc'[t] = "done"]_vars

\* C33: a process_results request rejected by the validation of its input
\* leaves the failure count as it was, so malformed requests cannot open the
\* breaker.
C33_ValidationKeepsCount ==
    \A t \in Threads :
        (/\ pc[t] = "done"
         /\ pr[t].op = "process_results"
         /\ pr[t].input \in {"missing_field", "invalid_results"})
        => /\ circuit_breaker_failures = pr[t].preFailures
           /\ (pr[t].preFailures < circuit_breaker_threshold => ~BreakerOpen)

\* C34: the retry hint is sound. A request made retryAfter seconds after a
\* rejection of its (user, service) falls into a later window of the kind
\* that rejected, and the first request of that window is not rejected by
\* that window's check.
C34_RetryHintSound ==
    \A t \in Threads : \A r \in rateRejections :
        (/\ pc[t] = "done"
         /\ rl[t] # NoRl
         /\ r.user_id = rl[t].user_id
         /\ r.service = rl[t].service
         /\ rl[t].now = r.time + r.retryAfter)
        => /\ r.variant = "minute" =>
                 /\ rl[t].window_start > r.window_start
                 /\ rl[t].priorMinute = 0 => resp[t].error # "Rate limit exceeded"
           /\ r.variant = "hour" =>
                 /\ rl[t].hourly_window > r.window_start
                 /\ rl[t].priorHour = 0 => resp[t].error # "Hourly rate limit exceeded"

C34_Witness ==
    \E t \in Threads : \E r \in rateRejections :
        /\ pc[t] = "done"
        /\ rl[t].ran
        /\ r.variant = "hour"
        /\ r.service = rl[t].service
        /\ r.retryAfter > 0
        /\ rl[t].now = r.time + r.retryAfter
        /\ rl[t].hourly_window > r.window_start

\* the (user, service) the worker's current call is for
CallPair ==
    IF rl[Worker] # NoRl THEN <<rl[Worker].user_id, rl[Worker].service>>
    ELSE IF cl[Worker] # NoCl THEN <<cl[Worker].user_id, cl[Worker].service>>
    ELSE <<"", "">>

IsoWindows(period) == {WindowStart(time, period) : time \in IsoInstants}

\* no step of a call changes what is stored for another (user, service)
C35_OtherPairsKept ==
    \A user_id \in IsoUsers, service \in IsoServices :
        (<<user_id, service>> # CallPair /\ now' = now) =>
            /\ \A w \in IsoWindows(MinutePeriod) :
                  CacheGet(rate_limit_cache', RateLimitKey(user_id, service, w), now)
                     = CacheGet(rate_limit_cache, RateLimitKey(user_id, service, w), now)
            /\ \A w \in IsoWindows(HourPeriod) :
                  CacheGet(rate_limit_cache', HourlyKey(user_id, service, w), now)
                     = CacheGet(rate_limit_cache, HourlyKey(user_id, service, w), now)
            /\ \A time \in IsoInstants :
                  CacheGet(cost_cache', CostKey(user_id, service, Today(time)), now)
                     = CacheGet(cost_cache, CostKey(user_id, service, Today(time)), now)

\* the minute key and the hour key of a (user, service) differ
C35_KeysDistinct ==
    \A user_id \in IsoUsers, service \in IsoServices :
        \A w \in IsoWindows(MinutePeriod), h \in IsoWindows(HourPeriod) :
            RateLimitKey(user_id, service, w) # HourlyKey(user_id, service, h)

C36_TtlKeepsLiveCounters ==
    /\ \A k \in DOMAIN admittedMinute :
          (k[3] <= now /\ now < k[3] + MinutePeriod) =>
              ~IsNone(CacheGet(rate_limit_cache, RateLimitKey(k[1], k[2], k[3]), now))
    /\ \A k \in DOMAIN admittedHour :
          (k[3] <= now /\ now < k[3] + HourPeriod) =>
              ~IsNone(CacheGet(rate_limit_cache, HourlyKey(k[1], k[2], k[3]), now))
    /\ \A k \in DOMAIN admittedCount :
          now \div DayPeriod = k[3] =>
              ~IsNone(CacheGet(cost_cache, CostKey(k[1], k[2], Today(now)), now))

C36_Witness ==
    /\ now = HourPeriod - 1
    /\ \E k \in DOMAIN admittedCount :
          /\ k[3] = now \div DayPeriod
          /\ CostKey(k[1], k[2], Today(now)) \in DOMAIN cost_cache
          /\ cost_cache[CostKey(k[1], k[2], Today(now))].expires = DayPeriod
          /\ ~IsNone(CacheGet(cost_cache, CostKey(k[1], k[2], Today(now)), now))
    /\ \E k \in DOMAIN admittedHour :
          /\ k[3] = WindowStart(now, HourPeriod)
          /\ HourlyKey(k[1], k[2], k[3]) \in DOMAIN rate_limit_cache
          /\ rate_limit_cache[HourlyKey(k[1], k[2], k[3])].expires = HourPeriod
          /\ ~IsNone(CacheGet(rate_limit_cache, HourlyKey(k[1], k[2], k[3]), now))

\* the request count a cache holds under a key at a time
CountAt(cache, key, time) ==
    IF IsNone(CacheGet(cache, key, time)) THEN 0
    ELSE Val(CacheGet(cache, key, time)).request_count

\* C37: a rate-limit slot is consumed at admission and never given back:
\* once the rate limiter admitted a request, both window counts stand at
\* their value before the request plus 1 when the request is over, whether
\* its body was refused, the cost governor rejected it, or the external call
\* failed or succeeded.
C37_SlotNeverGivenBack ==
    \A t \in Threads :
        (pc[t] = "done" /\ rq[t].rateDecision = "admitted") =>
            LET service == RouteService(rq[t].endpoint)
                minute == RateLimitKey(rq[t].user_id, service,
                                       WindowStart(now, MinutePeriod))
                hour == HourlyKey(rq[t].user_id, service, WindowStart(now, HourPeriod))
            IN  /\ CountAt(rate_limit_cache, minute, now)
                      = CountAt(rq[t].rateAtStart, minute, now) + 1
                /\ CountAt(rate_limit_cache, hour, now)
                      = CountAt(rq[t].rateAtStart, hour, now) + 1

C37_Witness ==
    \E t \in Threads :
        /\ pc[t] = "done"
        /\ rq[t].rateDecision = "admitted"
        /\ rq[t].costDecision = "admitted"
        /\ rq[t].operationCalls = 1
        /\ resp[t] = ErrorHandlerResponse

\* the ledger entry of a request's (user, service) for the day of a time
LedgerAt(cache, r, time) ==
    CacheGet(cache, CostKey(r.user_id, RouteService(r.endpoint), Today(time)), time)

\* C38: the estimated cost reserved by check_cost_limits stays in the ledger
\* whatever the outcome of the external call: once the call of an admitted
\* request has completed, with success or with a failure, the ledger entry is
\* the one the reservation wrote (the cost before the request plus the
\* estimate), with no refund and no adjustment to an actual cost.
C38_ReservationStays ==
    \A t \in Threads :
        (/\ pc[t] = "done"
         /\ rq[t].costDecision = "admitted"
         /\ rq[t].operationCalls = 1) =>
            /\ LedgerAt(cost_cache, rq[t], now)
                  = LedgerAt(CheckCostLimits(rq[t].costAtStart, rq[t].user_id,
                                             RouteService(rq[t].endpoint),
                                             rq[t].estimated_cost, now).cache,
                             rq[t], now)
            /\ Val(LedgerAt(cost_cache, rq[t], now)).cost
                  = CurrentCost(LedgerAt(rq[t].costAtStart, rq[t], now))
                      + rq[t].estimated_cost

C38_Witness ==
    \E t \in Threads :
        /\ pc[t] = "done"
        /\ rq[t].costDecision = "admitted"
        /\ rq[t].operationCalls = 1
        /\ resp[t] = ErrorHandlerResponse
        /\ rq[t].estimated_cost > 0
        /\ Val(LedgerAt(cost_cache, rq[t], now)).cost = rq[t].estimated_cost

\* a thread makes the downstream call of its process_results in this step
CallsDownstream(t) == pc[t] = "pr_downstream" /\ pc'[t] # "pr_downstream"

\* no downstream call is made for a submission whose result is cached
C39_NoCallWhileCached ==
    \A t \in Threads :
        CallsDownstream(t) =>
            IsNone(CacheGet(results_cache, ResultsKey(pr[t].submission_id), now))

\* a call answered from the cache made no downstream call and carries the
\* transaction hash the cache holds
C39_CachedAnswer ==
    \A t \in Threads :
        (pc[t] = "done" /\ pr[t].result = "cached") =>
            /\ ~pr[t].called
            /\ pr[t].txHash
                  = Some(Val(CacheGet(results_cache, ResultsKey(pr[t].submission_id),
                                      pr[t].arrival)).txHash)

\* C39: for one submission id, while its result is cached, the downstream
\* call is made at most once: a later process_results for that id is answered
\* from the cache with the first call's transaction hash and makes no
\* downstream call, also when two process_results calls for the id run
\* concurrently.
C39_OneDownstreamCall == [][C39_NoCallWhileCached]_vars /\ [] C39_CachedAnswer

\* a thread's retry_failed_submission runs in this step
RetryRuns(t) ==
    pc[t] = "idle" /\ pc'[t] = "done" /\ pr'[t].op = "retry_failed_submission"

C40_RetryEffect ==
    \A t \in Threads :
        RetryRuns(t) =>
            /\ IsNone(CacheGet(results_cache', ResultsKey(pr'[t].submission_id), now))
            /\ \A other \in RetryIds \ {pr'[t].submission_id} :
                  CacheGet(results_cache', ResultsKey(other), now)
                     = CacheGet(results_cache, ResultsKey(other), now)
            /\ BreakerOpen =>
                  /\ circuit_breaker_failures' = circuit_breaker_failures - 1
                  /\ circuit_breaker_failures' >= 0
            /\ circuit_breaker_failures < circuit_breaker_threshold =>
                  /\ circuit_breaker_failures' = circuit_breaker_failures
                  /\ last_failure_time' = last_failure_time

\* C40: retry_failed_submission removes only the cache entry of the given
\* submission id; when the breaker is open with its cooldown not elapsed it
\* lowers the failure count by exactly 1, never below 0; when the breaker is
\* closed (count below the threshold) it leaves the failure count and the
\* last-failure timestamp unchanged.
C40_RetryLowersByOne == [][C40_RetryEffect]_vars

C40_Witness ==
    \E t \in Threads :
        /\ pc[t] = "done"
        /\ pr[t].op = "retry_failed_submission"
        /\ SpecOpen(pr[t].preFailures, now - pr[t].preLast)
        /\ circuit_breaker_failures = pr[t].preFailures - 1
        /\ \E other \in RetryIds \ {pr[t].submission_id} :
              ~IsNone(CacheGet(results_cache, ResultsKey(other), now))

============================================================================
